---- MODULE Spec2Model ----
(***************************************************************************)
(* Reference-count code generator (compiler/gen/src/llvm/refcounting.rs).  *)
(*                                                                         *)
(* The module models five levels, each with its own specification:         *)
(*   - SpecCell: increment and decrement applied to a refcount cell;       *)
(*   - SpecEmit: the generator (the module under construction, the         *)
(*     layout-id table, memoized helper emission) serving requests;        *)
(*   - SpecRun: the emitted helpers executing on a heap of values;         *)
(*   - SpecUse: a program calling the helpers on a value it holds;         *)
(*   - SpecWidth: refcount_1 and the decrement function per pointer width. *)
(*                                                                         *)
(* Refcount words are two's-complement integers.  The real word is 64 bit  *)
(* wide; the model keeps the arithmetic (wrap-around, signed overflow      *)
(* detection) and scales the width down to WordBits.                       *)
(***************************************************************************)
EXTENDS Integers, Sequences, FiniteSets, TLC

VARIABLES
    leak,       \* env.leak: configuration flag of the compilation
    rc,         \* heap: the refcount word of every allocation
    align,      \* heap: alignment class (extra_bytes) of every allocation
    freed,      \* log of the addresses handed to free, in order
    last,       \* history: the last refcount operation that was executed
    trip        \* history: the last increment and the decrements since

cellVars == <<leak, rc, align, freed, last, trip>>

VARIABLES
    env_ptr_bytes,    \* env.ptr_bytes: the pointer width of the compilation target
    debug_assertions, \* the generator is a debug build (debug_assert! is live)
    module,           \* env.module: the functions added so far, in order
    layout_ids,       \* LayoutIds: per symbol, the layouts interned so far
    aborted,          \* the generator panicked
    calls,            \* calls emitted into the requesting function, in order
    request,          \* history: the last emit_modify request
    program           \* the layouts of the program being compiled

emitVars == <<env_ptr_bytes, debug_assertions, module, layout_ids, aborted, calls, request, program>>

VARIABLES
    stack,      \* the call stack of the emitted code that is running
    elems,      \* heap: the elements behind the data pointer of an allocation
    trace,      \* history: element visits and refcount operations, in order
    run         \* the run: the amount passed to an increment helper, status

runVars == <<stack, elems, trace, run>>

vars == <<cellVars, emitVars, runVars>>

\* a layout, or a WhenRecursive context: a head and its arguments
Lay(head, args) == [head |-> head, args |-> args]

----------------------------------------------------------------------------
(* Machine words                                                           *)

\* scaled width of the pointer-sized integer (ptr_int)
WordBits == 4

Modulus == 2 ^ WordBits

IntMin == -(2 ^ (WordBits - 1))

IntMax == (2 ^ (WordBits - 1)) - 1

Words == IntMin .. IntMax

\* a pointer-sized unsigned amount
Amounts == 0 .. (Modulus - 1)

\* two's-complement wrap-around of an integer into the word range
Wrap(x) == ((x - IntMin) % Modulus) + IntMin

\* env.ptr_bytes of the 64-bit target
ptr_bytes == 8

REFCOUNT_MAX == 0

\* refcount_1: the most negative word stands for a count of exactly one
refcount_1 == IntMin

\* llvm.sadd.with.overflow: wrapped sum and the signed-overflow flag
SaddWithOverflow(a, b) ==
    [result |-> Wrap(a + b), overflowed |-> (a + b < IntMin \/ a + b > IntMax)]

\* the words the encoding allows: STATIC (0) or a count in [INT_MIN, 0)
ValidWord(w) == w = REFCOUNT_MAX \/ (IntMin <= w /\ w < 0)

ValidWords == {w \in Words : ValidWord(w)}

\* the count a non-static valid word stands for: v - INT_MIN + 1
CountOf(w) == w - IntMin + 1

----------------------------------------------------------------------------
(* Heap addresses                                                          *)

\* the allocations of the heap
Objs == {1, 2, 3}

\* the allocation the cell-level operations act on
Cells == {1}

\* the malloc'd base address of allocation o
Base(o) == o * (8 * ptr_bytes)

\* address of the refcount word: the base, or one word later when the
\* allocation is padded to an alignment of two words
RcAddrOf(o, a) == Base(o) + (a - ptr_bytes)

RcAddr(o) == RcAddrOf(o, align[o])

\* address of the payload: one word after the refcount word
DataPtr(o) == RcAddr(o) + ptr_bytes

\* PointerToRefcount::from_ptr_to_data: gep of index -1 on a usize pointer
from_ptr_to_data(data_ptr) == data_ptr - ptr_bytes

FreedAddrs == {freed[i] : i \in 1 .. Len(freed)}

\* a free was issued for allocation o
IsFreed(o) == Base(o) \in FreedAddrs

\* alignment classes the allocator hands out: W and 2W
AlignClasses == {ptr_bytes, 2 * ptr_bytes}

----------------------------------------------------------------------------
(* Refcount cell operations                                                *)

increment_adds_one(refcount, amount) ==
    IF refcount = REFCOUNT_MAX THEN refcount ELSE Wrap(refcount + 1)

increment_no_static_check(refcount, amount) == Wrap(refcount + amount)

\* PointerToRefcount::increment: the word stored after increment(amount);
\* a static cell branches over the store
increment(refcount, amount) ==
    IF refcount = REFCOUNT_MAX
    THEN refcount
    ELSE Wrap(refcount + amount)

then_block_free_ignores_leak(refcount_ptr, extra_bytes, leak_) ==
    IF extra_bytes = ptr_bytes THEN <<refcount_ptr>>
    ELSE IF extra_bytes = 2 * ptr_bytes THEN <<from_ptr_to_data(refcount_ptr)>>
    ELSE <<>>

then_block_free_at_word(refcount_ptr, extra_bytes, leak_) ==
    IF leak_ THEN <<>> ELSE <<refcount_ptr>>

\* the then-block of the decrement function: which address it frees
then_block_free(refcount_ptr, extra_bytes, leak_) ==
    IF leak_ THEN <<>>
    ELSE IF extra_bytes = ptr_bytes THEN <<refcount_ptr>>
    ELSE IF extra_bytes = 2 * ptr_bytes THEN <<from_ptr_to_data(refcount_ptr)>>
    ELSE <<>>   \* unreachable!: emission of such a function aborts

build_decrement_function_body_frees_at_two(refcount, refcount_ptr, extra_bytes, leak_) ==
    LET add_with_overflow == SaddWithOverflow(refcount, -1)
    IN  IF refcount = 0
        THEN [store |-> FALSE, value |-> refcount, frees |-> <<>>]
        ELSE IF add_with_overflow.result = refcount_1
        THEN [store |-> FALSE, value |-> refcount,
              frees |-> then_block_free(refcount_ptr, extra_bytes, leak_)]
        ELSE [store |-> TRUE, value |-> add_with_overflow.result, frees |-> <<>>]

build_decrement_function_body_max_above_one(refcount, refcount_ptr, extra_bytes, leak_) ==
    LET add_with_overflow == SaddWithOverflow(refcount, -1)
        max == refcount = refcount_1 + 1
    IN  IF refcount = 0
        THEN [store |-> FALSE, value |-> refcount, frees |-> <<>>]
        ELSE IF add_with_overflow.overflowed
        THEN [store |-> FALSE, value |-> refcount,
              frees |-> then_block_free(refcount_ptr, extra_bytes, leak_)]
        ELSE [store |-> TRUE,
              value |-> IF max THEN refcount ELSE add_with_overflow.result,
              frees |-> <<>>]

\* PointerToRefcount::_build_decrement_function_body: the effect of one call
\* of decrement_refcounted_ptr_<extra_bytes> on the word `refcount` found at
\* refcount_ptr: whether it stores, what it stores, what it frees
build_decrement_function_body(refcount, refcount_ptr, extra_bytes, leak_) ==
    LET is_static_allocation == refcount = 0
        add_with_overflow == SaddWithOverflow(refcount, -1)
        has_overflowed == add_with_overflow.overflowed
        max == refcount = REFCOUNT_MAX
        decremented == add_with_overflow.result
        selected == IF max THEN refcount ELSE decremented
    IN  IF is_static_allocation
        THEN [store |-> FALSE, value |-> refcount, frees |-> <<>>]
        ELSE IF has_overflowed
        THEN [store |-> FALSE, value |-> refcount,
              frees |-> then_block_free(refcount_ptr, extra_bytes, leak_)]
        ELSE [store |-> TRUE, value |-> selected, frees |-> <<>>]

----------------------------------------------------------------------------
(* Cell level: increment and decrement applied to live cells               *)

NoOp == [op |-> "none", obj |-> 0, amount |-> 0, before |-> 0, nfreed |-> 0]

\* no increment has been followed up yet
NoTrip == [obj |-> 0, n |-> -1, decs |-> 0, before |-> 0, nfreed |-> 0]

NoRequest == [n |-> 0, layout |-> Lay("none", <<>>), mode |-> "none",
              module_before |-> <<>>, ncalls |-> 0]

NoRun == [amount |-> 0, status |-> "none", root |-> [ptr |-> 0, len |-> 0, fields |-> <<>>],
          rc0 |-> <<>>]

\* no emitted code is running
RunIdle ==
    /\ stack = <<>>
    /\ elems = <<>>
    /\ trace = <<>>
    /\ run = NoRun

\* the generator before its first request
EmitIdle ==
    /\ env_ptr_bytes = ptr_bytes
    /\ debug_assertions = FALSE
    /\ module = <<>>
    /\ layout_ids = [INC |-> <<>>, DEC |-> <<>>]
    /\ aborted = FALSE
    /\ calls = <<>>
    /\ request = NoRequest
    /\ program = {}

InitCell ==
    /\ EmitIdle
    /\ RunIdle
    /\ leak \in BOOLEAN
    /\ rc \in [Cells -> ValidWords]
    /\ align \in [Cells -> AlignClasses]
    /\ freed = <<>>
    /\ last = NoOp
    /\ trip = NoTrip

\* rc.increment(amount) on the cell of a live allocation
Increment(o, amount) ==
    /\ ~IsFreed(o)
    /\ rc' = [rc EXCEPT ![o] = increment(rc[o], amount)]
    /\ last' = [op |-> "inc", obj |-> o, amount |-> amount, before |-> rc[o],
                nfreed |-> Len(freed)]
    /\ trip' = [obj |-> o, n |-> amount, decs |-> 0, before |-> rc[o],
                nfreed |-> Len(freed)]
    /\ UNCHANGED <<leak, align, freed, emitVars, runVars>>

\* rc.decrement(layout): a call of the shared decrement function of the
\* allocation's alignment class
Decrement(o) ==
    /\ ~IsFreed(o)
    /\ LET r == build_decrement_function_body(rc[o], RcAddr(o), align[o], leak)
       IN  /\ rc' = IF r.store THEN [rc EXCEPT ![o] = r.value] ELSE rc
           /\ freed' = freed \o r.frees
    /\ last' = [op |-> "dec", obj |-> o, amount |-> 1, before |-> rc[o],
                nfreed |-> Len(freed)]
    /\ trip' = IF trip.obj = o /\ trip.decs < trip.n
               THEN [trip EXCEPT !.decs = @ + 1]
               ELSE NoTrip
    /\ UNCHANGED <<leak, align, emitVars, runVars>>

NextCell ==
    \/ \E o \in Cells, amount \in Amounts : Increment(o, amount)
    \/ \E o \in Cells : Decrement(o)

SpecCell == InitCell /\ [][NextCell]_vars

----------------------------------------------------------------------------
(* Layouts (roc_mono::layout), as records [head, args]                     *)

Int64 == Lay("Int64", <<>>)

Int128 == Lay("Int128", <<>>)

Str == Lay("Str", <<>>)

\* Builtin::List(MemoryMode::Refcounted, e)
ListOf(e) == Lay("List", <<e>>)

\* Builtin::List(MemoryMode::Unique, e): a list passed by value
ListByValue(e) == Lay("ListByValue", <<e>>)

DictOf(k, v) == Lay("Dict", <<k, v>>)

SetOf(e) == Lay("Set", <<e>>)

Struct(fields) == Lay("Struct", fields)

RecursivePointer == Lay("RecursivePointer", <<>>)

FunctionPointer == Lay("FunctionPointer", <<>>)

Pointer == Lay("Pointer", <<>>)

PhantomEmptyStruct == Lay("PhantomEmptyStruct", <<>>)

\* Layout::Closure(_, closure_layout, _), args = <<captured block layout>>
Closure(captured) == Lay("Closure", <<captured>>)

\* one variant of a union: its field layouts
Tag(fields) == Lay("Tag", fields)

\* UnionLayout::*: args are the Tags (the field layouts for the Unwrapped forms)
NonRecursive(tags) == Lay("NonRecursive", tags)

Recursive(tags) == Lay("Recursive", tags)

NullableWrapped(other_tags) == Lay("NullableWrapped", other_tags)

NullableUnwrapped(other_fields) == Lay("NullableUnwrapped", other_fields)

NonNullableUnwrapped(fields) == Lay("NonNullableUnwrapped", fields)

Unreachable == Lay("Unreachable", <<>>)

\* WhenRecursive::Loop(union_layout)
Loop(union_layout) == Lay("Loop", <<union_layout>>)

RecUnionHeads == {"Recursive", "NullableWrapped", "NullableUnwrapped", "NonNullableUnwrapped"}

BuiltinHeads == {"Int64", "Int128", "Str", "List", "ListByValue", "Dict", "Set"}

SeqMax(s) == IF Len(s) = 0 THEN 0 ELSE CHOOSE m \in {s[i] : i \in 1 .. Len(s)} :
                                        \A i \in 1 .. Len(s) : s[i] <= m

RECURSIVE contains_refcounted(_)
\* Layout::contains_refcounted
contains_refcounted(layout) ==
    CASE layout.head \in {"Str", "List", "Dict", "Set"} -> TRUE
      [] layout.head \in {"Int64", "Int128", "ListByValue"} -> FALSE
      [] layout.head \in {"PhantomEmptyStruct", "FunctionPointer", "Pointer"} -> FALSE
      [] layout.head \in {"Struct", "Tag"} ->
            \E i \in 1 .. Len(layout.args) : contains_refcounted(layout.args[i])
      [] layout.head = "NonRecursive" ->
            \E i \in 1 .. Len(layout.args) : contains_refcounted(layout.args[i])
      [] layout.head \in RecUnionHeads -> TRUE
      [] layout.head = "RecursivePointer" -> TRUE
      [] layout.head = "Closure" -> contains_refcounted(layout.args[1])
      [] OTHER -> FALSE

\* Layout::is_refcounted: the value itself is a pointer to a refcounted cell
is_refcounted(layout) ==
    layout.head \in ({"Str", "List", "RecursivePointer"} \cup RecUnionHeads)

\* the alignment of a 128-bit integer, whatever the width of a pointer
align_of_i128 == 16

\* the alignment of a 64-bit integer
align_of_i64 == 8

RECURSIVE alignment_bytes(_, _)
RECURSIVE stack_size(_, _)
RECURSIVE SeqSum(_)
RECURSIVE AfterDecrements(_, _, _)
\* Layout::alignment_bytes(pointer_size)
alignment_bytes(layout, pointer_size) ==
    CASE layout.head = "Int128" -> align_of_i128
      [] layout.head = "Int64" -> align_of_i64
      [] layout.head = "PhantomEmptyStruct" -> 0
      [] layout.head \in {"Struct", "Tag", "NonRecursive"} ->
            SeqMax([i \in 1 .. Len(layout.args) |->
                        alignment_bytes(layout.args[i], pointer_size)])
      [] layout.head = "Closure" ->
            IF alignment_bytes(layout.args[1], pointer_size) > pointer_size
            THEN alignment_bytes(layout.args[1], pointer_size) ELSE pointer_size
      [] OTHER -> pointer_size

SeqSum(s) == IF Len(s) = 0 THEN 0 ELSE Head(s) + SeqSum(Tail(s))

\* Builtin::LIST_WORDS and STR_WORDS: a wrapper of data pointer and length
LIST_WORDS == 2

\* Builtin::DICT_WORDS and SET_WORDS: data pointer, length and one more word
DICT_WORDS == 3

\* Layout::stack_size(pointer_size)
stack_size(layout, pointer_size) ==
    CASE layout.head = "Int128" -> 16
      [] layout.head = "Int64" -> 8
      [] layout.head = "PhantomEmptyStruct" -> 0
      [] layout.head \in {"Str", "List", "ListByValue"} -> LIST_WORDS * pointer_size
      [] layout.head \in {"Dict", "Set"} -> DICT_WORDS * pointer_size
      [] layout.head \in {"Struct", "Tag"} ->
            SeqSum([i \in 1 .. Len(layout.args) |->
                        stack_size(layout.args[i], pointer_size)])
      [] layout.head = "NonRecursive" ->
            SeqMax([i \in 1 .. Len(layout.args) |->
                        stack_size(layout.args[i], pointer_size)])
      [] layout.head = "Closure" ->
            pointer_size + stack_size(layout.args[1], pointer_size)
      [] OTHER -> pointer_size

\* some field of the variant is or contains something refcounted
tag_has_refcounted(field_layouts) ==
    \E i \in 1 .. Len(field_layouts) :
        is_refcounted(field_layouts[i]) \/ contains_refcounted(field_layouts[i])

----------------------------------------------------------------------------
(* The module under construction and the emitted instructions               *)

NoFn == 0

\* an emitted instruction; fn is a FunctionValue (a position in the module)
Instr(op, fn, idx) ==
    [op |-> op, fn |-> fn, idx |-> idx, tail |-> FALSE, cast |-> FALSE,
     cases |-> <<>>, t1 |-> 0, t2 |-> 0]

Branch(op, t1, t2) == [Instr(op, NoFn, 0) EXCEPT !.t1 = t1, !.t2 = t2]

Switch(cases, default) == [Instr("switch", NoFn, 0) EXCEPT !.cases = cases, !.t1 = default]

Ret == Instr("ret", NoFn, 0)

\* Module::get_function: the first function of that name, NoFn if none
get_function(m, fn_name) ==
    IF \E i \in 1 .. Len(m) : m[i].name = fn_name
    THEN CHOOSE i \in 1 .. Len(m) :
            /\ m[i].name = fn_name
            /\ \A j \in 1 .. (i - 1) : m[j].name # fn_name
    ELSE NoFn

IndexOf(s, x) == CHOOSE i \in 1 .. Len(s) : s[i] = x /\ \A j \in 1 .. (i - 1) : s[j] # x

InSeq(s, x) == \E i \in 1 .. Len(s) : s[i] = x

\* LayoutIds::get(symbol, layout): the id of the layout in the symbol's
\* table, interning it first when it is new
layout_ids_get(ids, symbol, layout) ==
    IF InSeq(ids[symbol], layout)
    THEN [ids |-> ids, id |-> IndexOf(ids[symbol], layout)]
    ELSE [ids |-> [ids EXCEPT ![symbol] = Append(@, layout)],
          id |-> Len(ids[symbol]) + 1]

ModeSymbol(mode) == IF mode = "Inc" THEN "INC" ELSE "DEC"

function_name_from_mode_own_symbol(st, layout, mode) ==
    LET g == layout_ids_get(st.layout_ids, ModeSymbol(mode), layout)
    IN  [st |-> [st EXCEPT !.layout_ids = g.ids],
         fn_name |-> [sym |-> ModeSymbol(mode), id |-> g.id]]

\* function_name_from_mode: the layout id is always taken under Symbol::DEC
function_name_from_mode(st, layout, mode) ==
    LET g == layout_ids_get(st.layout_ids, "DEC", layout)
    IN  [st |-> [st EXCEPT !.layout_ids = g.ids],
         fn_name |-> [sym |-> ModeSymbol(mode), id |-> g.id]]

\* build_header / build_header_help: add_function with a private linkage;
\* an increment helper takes (value, amount), a decrement helper (value)
build_header(st, arg_type, mode, fn_name) ==
    [st |-> [st EXCEPT !.module = Append(@,
                [name |-> fn_name, arg_type |-> arg_type,
                 nparams |-> IF mode = "Inc" THEN 2 ELSE 1,
                 blocks |-> <<>>])],
     fn |-> Len(st.module) + 1]

\* the body of function fn is complete
SetBlocks(st, fn, blocks) == [st EXCEPT !.module[fn].blocks = blocks]

Panic(st) == [st EXCEPT !.aborted = TRUE]

\* the builder positioned at the end of a fresh block
Begin(st) == [st |-> st, instrs |-> <<>>]

\* the builder appends instructions to the block it is positioned at
Emit(acc, instrs) == [acc EXCEPT !.instrs = @ \o instrs]

\* layout.alignment_bytes(env.ptr_bytes).max(env.ptr_bytes)
alignment_class(layout) ==
    IF alignment_bytes(layout, env_ptr_bytes) > env_ptr_bytes
    THEN alignment_bytes(layout, env_ptr_bytes) ELSE env_ptr_bytes

\* refcount_offset: the distance from the data pointer back to the
\* refcount word
refcount_offset(layout) ==
    CASE layout.head \in {"List", "ListByValue"} -> env_ptr_bytes
      [] layout.head = "Str" -> env_ptr_bytes
      [] layout.head \in ({"RecursivePointer", "NonRecursive"} \cup RecUnionHeads) ->
            env_ptr_bytes
      [] OTHER -> IF stack_size(layout, env_ptr_bytes) > env_ptr_bytes
                  THEN stack_size(layout, env_ptr_bytes) ELSE env_ptr_bytes

\* get_refcount_ptr_help: the data pointer, as an integer, minus the offset
get_refcount_ptr_help(layout, ptr_as_int) == ptr_as_int - refcount_offset(layout)

decrement_always_builds(acc, layout) ==
    [st |-> [acc.st EXCEPT
                !.module = Append(@,
                    [name |-> [sym |-> "decrement_refcounted_ptr",
                               id |-> alignment_class(layout)],
                     arg_type |-> "refcount_ptr", nparams |-> 1,
                     blocks |-> << <<Instr("decrement_body", NoFn, alignment_class(layout)),
                                    Ret>> >>])],
     instrs |-> acc.instrs \o <<Instr("rc_decrement", Len(acc.st.module) + 1, 0)>>]

\* PointerToRefcount::decrement: call the shared decrement function of the
\* layout's alignment class, emitting that function on first use
decrement(acc, layout) ==
    LET alignment == alignment_class(layout)
        fn_name == [sym |-> "decrement_refcounted_ptr", id |-> alignment]
        found == get_function(acc.st.module, fn_name)
        invalid == ~leak /\ alignment # env_ptr_bytes /\ alignment # 2 * env_ptr_bytes
    IN  IF found # NoFn
        THEN Emit(acc, <<Instr("rc_decrement", found, 0)>>)
        ELSE [st |-> [acc.st EXCEPT
                        !.module = Append(@,
                            [name |-> fn_name, arg_type |-> "refcount_ptr", nparams |-> 1,
                             blocks |-> << <<Instr("decrement_body", NoFn, alignment),
                                            Ret>> >>]),
                        !.aborted = @ \/ invalid],
              instrs |-> acc.instrs
                         \o <<Instr("rc_decrement", Len(acc.st.module) + 1, 0)>>]

\* PointerToRefcount::modify on the cell of the helper's argument: an inline
\* increment by the helper's amount, or a call of the decrement function
modify(acc, mode, layout) ==
    IF mode = "Inc"
    THEN Emit(acc, <<Instr("rc_increment", NoFn, 0)>>)
    ELSE decrement(acc, layout)

----------------------------------------------------------------------------
(* The layout-directed emitter.  st = [module, layout_ids, aborted] is the  *)
(* generator's state; acc = [st, instrs] is that state together with the   *)
(* instructions emitted so far into the block the builder is positioned    *)
(* at.  An operator that finds or builds a helper returns [st, fn].        *)

RECURSIVE modify_refcount_layout_build_function(_, _, _, _)
RECURSIVE modify_refcount_layout_help(_, _, _, _, _)
RECURSIVE struct_fields(_, _, _, _, _)
RECURSIVE struct_fields_all(_, _, _, _, _)
RECURSIVE deferred_nonrec_calls(_, _, _, _, _)
RECURSIVE rec_union_cases(_, _, _, _, _, _, _)
RECURSIVE union_fields(_, _, _, _, _)
RECURSIVE union_cases(_, _, _, _, _)

\* call_help: a call of the helper with the fast calling convention
call_help(fn, operand) == Instr("call", fn, operand)

\* a loop over the elements of a collection whose body is the call emitted
\* into body (incrementing_elem_loop, dict_walk); the loop is one instruction
\* of the model, carrying the called helper
elem_loop(acc, op, body) ==
    [st |-> body.st,
     instrs |-> acc.instrs \o
        <<IF body.instrs = <<>> THEN Instr(op, NoFn, 0)
          ELSE [Instr(op, body.instrs[1].fn, 0) EXCEPT !.cast = body.instrs[1].cast]>>]

elem_loop_never(acc, op, mode, when_recursive, element_layout) == acc

\* the loop is emitted only for elements that contain refcounted data
elem_loop_if_refcounted(acc, op, mode, when_recursive, element_layout) ==
    IF contains_refcounted(element_layout)
    THEN elem_loop(acc, op,
            modify_refcount_layout_help(Begin(acc.st), mode, when_recursive,
                                        element_layout, 0))
    ELSE acc

\* the three blocks of a list helper, given its modification block
list_blocks(modification, fn_val) ==
    LET entry == <<Branch("br_if_len_ugt_0", 2, 3)>>
        modification_block == modification.instrs \o <<Branch("br", 3, 0)>>
        cont_block == <<Ret>>
    IN  SetBlocks(modification.st, fn_val, <<entry, modification_block, cont_block>>)

modify_refcount_list_help_rc_first(st, mode, when_recursive, layout, element_layout, fn_val) ==
    list_blocks(
        elem_loop_if_refcounted(modify(Begin(st), mode, layout), "elem_loop", mode,
                                when_recursive, element_layout),
        fn_val)

\* modify_refcount_list_help: the body of a list helper; the elements are
\* visited first, the list's own cell is modified after the loop
modify_refcount_list_help(st, mode, when_recursive, layout, element_layout, fn_val) ==
    list_blocks(
        modify(elem_loop_if_refcounted(Begin(st), "elem_loop", mode, when_recursive,
                                       element_layout),
               mode, layout),
        fn_val)

modify_refcount_list_always_builds(st, mode, when_recursive, layout, element_layout) ==
    LET n == function_name_from_mode(st, layout, mode)
        h == build_header(n.st, "list", mode, n.fn_name)
    IN  [st |-> modify_refcount_list_help(h.st, mode, when_recursive, layout,
                                          element_layout, h.fn),
         fn |-> h.fn]

\* modify_refcount_list: the list helper of the layout, built on first use
modify_refcount_list(st, mode, when_recursive, layout, element_layout) ==
    LET n == function_name_from_mode(st, layout, mode)
        found == get_function(n.st.module, n.fn_name)
        h == build_header(n.st, "list", mode, n.fn_name)
    IN  IF found # NoFn
        THEN [st |-> n.st, fn |-> found]
        ELSE [st |-> modify_refcount_list_help(h.st, mode, when_recursive, layout,
                                               element_layout, h.fn),
              fn |-> h.fn]

str_blocks_unsigned(modification, fn_val) ==
    SetBlocks(modification.st, fn_val,
              <<<<Branch("br_if_len_ugt_0", 3, 2)>>, <<Ret>>,
                modification.instrs \o <<Branch("br", 2, 0)>> >>)

\* the three blocks of a string, dict or set helper, given its modification
\* block
str_blocks(modification, fn_val) ==
    LET entry == <<Branch("br_if_len_sgt_0", 3, 2)>>
        cont_block == <<Ret>>
        modification_block == modification.instrs \o <<Branch("br", 2, 0)>>
    IN  SetBlocks(modification.st, fn_val, <<entry, cont_block, modification_block>>)

\* modify_refcount_str_help: the body of the string helper
modify_refcount_str_help(st, mode, layout, fn_val) ==
    str_blocks(modify(Begin(st), mode, layout), fn_val)

\* modify_refcount_str
modify_refcount_str(st, mode, layout) ==
    LET n == function_name_from_mode(st, layout, mode)
        found == get_function(n.st.module, n.fn_name)
        h == build_header(n.st, "str", mode, n.fn_name)
    IN  IF found # NoFn
        THEN [st |-> n.st, fn |-> found]
        ELSE [st |-> modify_refcount_str_help(h.st, mode, layout, h.fn), fn |-> h.fn]

\* build_dict::dict_elements_rc: visit the occupied slots and modify every
\* key and every value through the top-level entry point
dict_elements_rc(acc, key_layout, value_layout, mode) ==
    elem_loop_if_refcounted(
        elem_loop_if_refcounted(acc, "dict_keys_rc", mode, Unreachable, key_layout),
        "dict_values_rc", mode, Unreachable, value_layout)

modify_refcount_dict_help_rc_first(st, mode, when_recursive, layout, key_layout, value_layout, fn_val) ==
    str_blocks(
        IF contains_refcounted(key_layout) \/ contains_refcounted(value_layout)
        THEN dict_elements_rc(modify(Begin(st), mode, layout), key_layout, value_layout, mode)
        ELSE modify(Begin(st), mode, layout),
        fn_val)

\* modify_refcount_dict_help: the body of a dict or set helper
modify_refcount_dict_help(st, mode, when_recursive, layout, key_layout, value_layout, fn_val) ==
    LET asserted == IF debug_assertions /\ when_recursive # Unreachable
                    THEN Panic(st) ELSE st
    IN  str_blocks(
            modify(IF contains_refcounted(key_layout) \/ contains_refcounted(value_layout)
                   THEN dict_elements_rc(Begin(asserted), key_layout, value_layout, mode)
                   ELSE Begin(asserted),
                   mode, layout),
            fn_val)

\* modify_refcount_dict
modify_refcount_dict(st, mode, when_recursive, layout, key_layout, value_layout) ==
    LET n == function_name_from_mode(st, layout, mode)
        found == get_function(n.st.module, n.fn_name)
        h == build_header(n.st, "dict", mode, n.fn_name)
    IN  IF found # NoFn
        THEN [st |-> n.st, fn |-> found]
        ELSE [st |-> modify_refcount_dict_help(h.st, mode, when_recursive, layout,
                                               key_layout, value_layout, h.fn),
              fn |-> h.fn]

struct_fields_all(acc, mode, when_recursive, layouts, i) ==
    IF i > Len(layouts) THEN acc
    ELSE struct_fields_all(
            modify_refcount_layout_help(
                Emit(acc, <<Instr("extract_value", NoFn, i - 1)>>),
                mode, when_recursive, layouts[i], i - 1),
            mode, when_recursive, layouts, i + 1)

\* the field loop of modify_refcount_struct_help, from field i (1-based) on
struct_fields(acc, mode, when_recursive, layouts, i) ==
    IF i > Len(layouts) THEN acc
    ELSE struct_fields(
            IF contains_refcounted(layouts[i])
            THEN modify_refcount_layout_help(
                    Emit(acc, <<Instr("extract_value", NoFn, i - 1)>>),
                    mode, when_recursive, layouts[i], i - 1)
            ELSE acc,
            mode, when_recursive, layouts, i + 1)

\* the single block of a struct helper, given its instructions
struct_blocks(body, fn_val) == SetBlocks(body.st, fn_val, << body.instrs \o <<Ret>> >>)

\* modify_refcount_struct_help: the body of a struct helper
modify_refcount_struct_help(st, mode, when_recursive, layouts, fn_val) ==
    LET asserted == IF debug_assertions /\ when_recursive # Unreachable
                    THEN Panic(st) ELSE st
    IN  struct_blocks(struct_fields(Begin(asserted), mode, when_recursive, layouts, 1),
                      fn_val)

\* modify_refcount_struct
modify_refcount_struct(st, mode, when_recursive, layouts) ==
    LET n == function_name_from_mode(st, Struct(layouts), mode)
        found == get_function(n.st.module, n.fn_name)
        h == build_header(n.st, "struct", mode, n.fn_name)
    IN  IF found # NoFn
        THEN [st |-> n.st, fn |-> found]
        ELSE [st |-> modify_refcount_struct_help(h.st, mode, when_recursive, layouts, h.fn),
              fn |-> h.fn]

----------------------------------------------------------------------------
(* Tagged unions                                                           *)

Reverse(s) == [i \in 1 .. Len(s) |-> s[Len(s) + 1 - i]]

\* the blocks and switch cases collected so far by a loop over the tags
NoCases(st) == [st |-> st, blocks |-> <<>>, cases |-> <<>>]

\* the case block of tag t (1-based) becomes block number next
add_case(cs, t, next, block) ==
    [st |-> block.st,
     blocks |-> Append(cs.blocks, block.instrs),
     cases |-> Append(cs.cases, <<t - 1, next>>)]

RECURSIVE field_loads(_, _)
\* Phase A of a case block: load every recursive pointer (deferred_rec) and
\* every other field that contains refcounted data (deferred_nonrec)
field_loads(field_layouts, i) ==
    IF i > Len(field_layouts) THEN <<>>
    ELSE (IF field_layouts[i] = RecursivePointer
          THEN <<[Instr("load_field", NoFn, i - 1) EXCEPT !.cast = TRUE]>>
          ELSE IF contains_refcounted(field_layouts[i])
          THEN <<Instr("load_field", NoFn, i - 1)>>
          ELSE <<>>) \o field_loads(field_layouts, i + 1)

\* Phase C: modify the deferred non-recursive fields, from field i on
deferred_nonrec_calls(acc, mode, when_recursive, field_layouts, i) ==
    IF i > Len(field_layouts) THEN acc
    ELSE deferred_nonrec_calls(
            IF field_layouts[i] # RecursivePointer /\ contains_refcounted(field_layouts[i])
            THEN modify_refcount_layout_help(acc, mode, when_recursive,
                                             field_layouts[i], i - 1)
            ELSE acc,
            mode, when_recursive, field_layouts, i + 1)

RECURSIVE deferred_rec_calls_no_tail(_, _, _)
RECURSIVE deferred_rec_calls(_, _, _)
deferred_rec_calls_no_tail(field_layouts, fn_val, i) ==
    IF i > Len(field_layouts) THEN <<>>
    ELSE (IF field_layouts[i] = RecursivePointer
          THEN <<call_help(fn_val, i - 1)>>
          ELSE <<>>) \o deferred_rec_calls_no_tail(field_layouts, fn_val, i + 1)

\* Phase D: a tail call of the helper itself for every deferred recursive pointer
deferred_rec_calls(field_layouts, fn_val, i) ==
    IF i > Len(field_layouts) THEN <<>>
    ELSE (IF field_layouts[i] = RecursivePointer
          THEN <<[call_help(fn_val, i - 1) EXCEPT !.tail = TRUE]>>
          ELSE <<>>) \o deferred_rec_calls(field_layouts, fn_val, i + 1)

rec_union_case_block_rc_last(st, mode, when_recursive, tags, field_layouts, fn_val) ==
    Emit(modify(deferred_nonrec_calls(Emit(Begin(st), field_loads(field_layouts, 1)),
                                      mode, when_recursive, field_layouts, 1),
                mode, Recursive(tags)),
         deferred_rec_calls(field_layouts, fn_val, 1) \o <<Ret>>)

rec_union_case_block_loads_late(st, mode, when_recursive, tags, field_layouts, fn_val) ==
    Emit(deferred_nonrec_calls(Emit(modify(Begin(st), mode, Recursive(tags)),
                                    field_loads(field_layouts, 1)),
                               mode, when_recursive, field_layouts, 1),
         deferred_rec_calls(field_layouts, fn_val, 1) \o <<Ret>>)

\* one case block of build_rec_union_help: loads, the cell's own refcount
\* operation, the calls on the loaded fields, the self calls, return
rec_union_case_block(st, mode, when_recursive, tags, field_layouts, fn_val) ==
    Emit(deferred_nonrec_calls(modify(Emit(Begin(st), field_loads(field_layouts, 1)),
                                      mode, Recursive(tags)),
                               mode, when_recursive, field_layouts, 1),
         deferred_rec_calls(field_layouts, fn_val, 1) \o <<Ret>>)

\* the loop over the tags of build_rec_union_help, from tag t (1-based) on;
\* first is the number of the first case block
rec_union_cases(cs, mode, when_recursive, tags, fn_val, t, first) ==
    IF t > Len(tags) THEN cs
    ELSE rec_union_cases(
            IF tag_has_refcounted(tags[t].args)
            THEN add_case(cs, t, first + Len(cs.blocks),
                    rec_union_case_block(cs.st, mode, when_recursive, tags, tags[t].args,
                                         fn_val))
            ELSE cs,
            mode, when_recursive, tags, fn_val, t + 1, first)

rec_union_entry_unchecked(is_nullable) == <<Branch("br", 2, 0)>>

\* the entry block of the helper of a recursive union: the null test of a
\* nullable union, whose then-block (block 3) returns, else a jump to cont
rec_union_entry(is_nullable) ==
    IF is_nullable THEN <<Branch("br_if_null", 3, 2)>> ELSE <<Branch("br", 2, 0)>>

switch_needed_never(tags) == FALSE

\* switch_needed of build_rec_union_help: some tag has no field that is
\* refcounted or contains something refcounted
switch_needed(tags) == \E t \in 1 .. Len(tags) : ~tag_has_refcounted(tags[t].args)

rec_union_merge_returns(st, mode, tags) == Begin(st)

\* the merge block of the switch, reached by a tag without a case: the
\* refcount operation on the cell itself
rec_union_merge(st, mode, tags) == modify(Begin(st), mode, Recursive(tags))

\* the blocks of the helper of a recursive union, given its case blocks:
\* entry, cont (the switch or the only branch), then (nullable unions),
\* the case blocks, and the merge block of the switch
rec_union_blocks(c, mode, tags, fn_val, is_nullable) ==
    LET entry == rec_union_entry(is_nullable)
        then_block == IF is_nullable THEN << <<Ret>> >> ELSE <<>>
        first == IF is_nullable THEN 4 ELSE 3
        cases == Reverse(c.cases)
        m == rec_union_merge(c.st, mode, tags)
        merge == first + Len(c.blocks)
    IN  IF Len(cases) = 1 /\ ~switch_needed(tags)
        THEN SetBlocks(c.st, fn_val,
                <<entry, <<Branch("br", cases[1][2], 0)>> >> \o then_block \o c.blocks)
        ELSE SetBlocks(m.st, fn_val,
                <<entry, <<Instr("load_tag", NoFn, 0), Switch(cases, merge)>> >>
                \o then_block \o c.blocks \o << m.instrs \o <<Ret>> >>)

\* build_rec_union_help: the body of the helper of a recursive union
build_rec_union_help(st, mode, when_recursive, tags, fn_val, is_nullable) ==
    rec_union_blocks(
        rec_union_cases(NoCases(st), mode, when_recursive, tags, fn_val, 1,
                        IF is_nullable THEN 4 ELSE 3),
        mode, tags, fn_val, is_nullable)

build_rec_union_redeclares(st, mode, when_recursive, fields, is_nullable) ==
    LET n == function_name_from_mode(st, Recursive(fields), mode)
        found == get_function(n.st.module, n.fn_name)
        h == build_header(n.st, "rec_union_ptr", mode, n.fn_name)
    IN  IF found # NoFn /\ n.st.module[found].blocks # <<>>
        THEN [st |-> n.st, fn |-> found]
        ELSE IF found # NoFn
        THEN [st |-> SetBlocks(h.st, h.fn, << <<Ret>> >>), fn |-> h.fn]
        ELSE [st |-> build_rec_union_help(h.st, mode, when_recursive, fields, h.fn,
                                          is_nullable),
              fn |-> h.fn]

\* build_rec_union: the helper of a recursive union, always named after
\* UnionLayout::Recursive(fields); the header is added before the body is built
build_rec_union(st, mode, when_recursive, fields, is_nullable) ==
    LET n == function_name_from_mode(st, Recursive(fields), mode)
        found == get_function(n.st.module, n.fn_name)
        h == build_header(n.st, "rec_union_ptr", mode, n.fn_name)
    IN  IF found # NoFn
        THEN [st |-> n.st, fn |-> found]
        ELSE [st |-> build_rec_union_help(h.st, mode, when_recursive, fields, h.fn,
                                          is_nullable),
              fn |-> h.fn]

\* the field loop of one case of modify_refcount_union_help
union_fields(acc, mode, when_recursive, field_layouts, i) ==
    IF i > Len(field_layouts) THEN acc
    ELSE IF field_layouts[i] = RecursivePointer
    THEN [acc EXCEPT !.st = Panic(@)]
    ELSE union_fields(
            IF contains_refcounted(field_layouts[i])
            THEN modify_refcount_layout_help(
                    Emit(acc, <<Instr("extract_value", NoFn, i - 1)>>),
                    mode, when_recursive, field_layouts[i], i - 1)
            ELSE acc,
            mode, when_recursive, field_layouts, i + 1)

\* the loop over the tags of modify_refcount_union_help; the case blocks are
\* numbered from 3, after the entry and the merge block
union_cases(cs, mode, when_recursive, tags, t) ==
    IF t > Len(tags) THEN cs
    ELSE union_cases(
            IF tag_has_refcounted(tags[t].args)
            THEN add_case(cs, t, 3 + Len(cs.blocks),
                    Emit(union_fields(Begin(cs.st), mode, when_recursive, tags[t].args, 1),
                         <<Branch("br", 2, 0)>>))
            ELSE cs,
            mode, when_recursive, tags, t + 1)

union_blocks_default_to_first_case(c, fn_val) ==
    SetBlocks(c.st, fn_val,
        << <<Instr("extract_tag", NoFn, 0),
             Switch(c.cases, IF c.blocks = <<>> THEN 2 ELSE 3)>>,
           <<Ret>> >> \o c.blocks)

\* the blocks of the helper of a non-recursive union, given its case blocks
union_blocks(c, fn_val) ==
    LET entry == <<Instr("extract_tag", NoFn, 0), Switch(c.cases, 2)>>
        merge_block == <<Ret>>
    IN  SetBlocks(c.st, fn_val, <<entry, merge_block>> \o c.blocks)

\* modify_refcount_union_help: the body of the helper of a non-recursive union
modify_refcount_union_help(st, mode, when_recursive, tags, fn_val) ==
    union_blocks(union_cases(NoCases(st), mode, when_recursive, tags, 1), fn_val)

\* modify_refcount_union
modify_refcount_union(st, mode, when_recursive, fields) ==
    LET n == function_name_from_mode(st, NonRecursive(fields), mode)
        found == get_function(n.st.module, n.fn_name)
        h == build_header(n.st, "union_block", mode, n.fn_name)
    IN  IF found # NoFn
        THEN [st |-> n.st, fn |-> found]
        ELSE [st |-> modify_refcount_union_help(h.st, mode, when_recursive, fields, h.fn),
              fn |-> h.fn]

----------------------------------------------------------------------------
(* Dispatch on the layout                                                  *)

modify_refcount_builtin_any_memory_mode(st, mode, when_recursive, layout) ==
    CASE layout.head \in {"List", "ListByValue"} ->
            modify_refcount_list(st, mode, when_recursive, layout, layout.args[1])
      [] layout.head = "Set" ->
            modify_refcount_dict(st, mode, when_recursive, layout, Struct(<<>>),
                                 layout.args[1])
      [] layout.head = "Dict" ->
            modify_refcount_dict(st, mode, when_recursive, layout, layout.args[1],
                                 layout.args[2])
      [] layout.head = "Str" -> modify_refcount_str(st, mode, layout)
      [] OTHER -> [st |-> st, fn |-> NoFn]

\* modify_refcount_builtin: only a list in MemoryMode::Refcounted has a helper
modify_refcount_builtin(st, mode, when_recursive, layout) ==
    CASE layout.head = "List" ->
            modify_refcount_list(st, mode, when_recursive, layout, layout.args[1])
      [] layout.head = "Set" ->
            modify_refcount_dict(st, mode, when_recursive, layout, Struct(<<>>),
                                 layout.args[1])
      [] layout.head = "Dict" ->
            modify_refcount_dict(st, mode, when_recursive, layout, layout.args[1],
                                 layout.args[2])
      [] layout.head = "Str" -> modify_refcount_str(st, mode, layout)
      [] OTHER -> [st |-> st, fn |-> NoFn]

closure_struct_captures_first(layout) == Struct(<<layout.args[1], FunctionPointer>>)

\* actual_layout of a Closure: the struct of the function pointer and the
\* captured block
closure_struct(layout) == Struct(<<FunctionPointer, layout.args[1]>>)

\* modify_refcount_layout_build_function: the helper for the layout, or NoFn
modify_refcount_layout_build_function(st, mode, when_recursive, layout) ==
    CASE layout.head \in BuiltinHeads ->
            modify_refcount_builtin(st, mode, when_recursive, layout)
      \* the four recursive variants differ in the tags they pass on and
      \* in is_nullable, which only UnionLayout::Recursive passes as false
      [] layout.head \in RecUnionHeads ->
            build_rec_union(st, mode, Loop(layout),
                CASE layout.head = "NullableUnwrapped" -> <<Tag(Tail(layout.args))>>
                  [] layout.head = "NonNullableUnwrapped" -> <<Tag(layout.args)>>
                  [] OTHER -> layout.args,
                layout.head # "Recursive")
      [] layout.head = "NonRecursive" ->
            modify_refcount_union(st, mode, when_recursive, layout.args)
      [] layout.head = "Closure" ->
            IF contains_refcounted(layout.args[1])
            THEN modify_refcount_layout_build_function(st, mode, when_recursive,
                    closure_struct(layout))
            ELSE [st |-> st, fn |-> NoFn]
      [] layout.head = "Struct" ->
            modify_refcount_struct(st, mode, when_recursive, layout.args)
      [] layout.head = "PhantomEmptyStruct" -> [st |-> st, fn |-> NoFn]
      [] layout.head = "RecursivePointer" ->
            IF when_recursive = Unreachable
            THEN [st |-> Panic(st), fn |-> NoFn]
            ELSE modify_refcount_layout_build_function(st, mode, when_recursive,
                    when_recursive.args[1])
      [] OTHER -> [st |-> st, fn |-> NoFn]

\* the tail of modify_refcount_layout_help: nothing when no helper was
\* built, else a call of it on the operand
call_built(acc, b, when_recursive, layout, operand) ==
    IF b.fn = NoFn
    THEN [st |-> b.st, instrs |-> acc.instrs]
    ELSE IF layout.head = "RecursivePointer"
    THEN IF when_recursive = Unreachable
         THEN [st |-> Panic(b.st), instrs |-> acc.instrs]
         ELSE [st |-> b.st,
               instrs |-> Append(acc.instrs,
                                 [call_help(b.fn, operand) EXCEPT !.cast = TRUE])]
    ELSE [st |-> b.st, instrs |-> Append(acc.instrs, call_help(b.fn, operand))]

\* modify_refcount_layout_help: make sure the helper exists and emit a call
\* of it on the operand into the current block
modify_refcount_layout_help(acc, mode, when_recursive, layout, operand) ==
    call_built(acc,
               modify_refcount_layout_build_function(acc.st, mode, when_recursive, layout),
               when_recursive, layout, operand)

modify_refcount_layout_in_loop(st, mode, layout) ==
    modify_refcount_layout_help(Begin(st), mode,
        Loop(Recursive(<<Tag(<<Int64, RecursivePointer>>)>>)), layout, 0)

\* modify_refcount_layout: the entry point of increment_refcount_layout and
\* decrement_refcount_layout
modify_refcount_layout(st, mode, layout) ==
    modify_refcount_layout_help(Begin(st), mode, Unreachable, layout, 0)

----------------------------------------------------------------------------
(* The generator serving requests of the surrounding compiler              *)

\* bound on the number of requests of one compilation
MaxRequests == 3

ConsList == Recursive(<<Tag(<<Int64, Str, RecursivePointer>>), Tag(<<Int64>>)>>)

NullableList == NullableUnwrapped(<<Int64, Str, RecursivePointer>>)

RoseTree == NonNullableUnwrapped(<<ListOf(RecursivePointer)>>)

\* a second union with a list of itself among its fields
Forest == Recursive(<<Tag(<<ListOf(RecursivePointer), Str>>), Tag(<<Int64>>)>>)

\* a nullable union of a node and a leaf
NullableTree == NullableWrapped(<<Tag(<<Int64, Str, RecursivePointer>>), Tag(<<Int64>>)>>)

\* a recursive union with a struct among its fields
PairList == Recursive(<<Tag(<<Struct(<<Str, Int64>>), RecursivePointer>>), Tag(<<Int64>>)>>)

\* a non-recursive union with a variant that carries a recursion pointer
NakedUnion == NonRecursive(<<Tag(<<Int64, Str>>), Tag(<<Int64, RecursivePointer>>)>>)

\* a recursive union with such a non-recursive union among its fields
NestedNakedUnion ==
    Recursive(<<Tag(<<Int64, NonRecursive(<<Tag(<<Int64, RecursivePointer>>)>>),
                      RecursivePointer>>),
                Tag(<<Int64>>)>>)

\* the pointer widths of the targets compiled for: 32 and 64 bit
TargetWidths == {4, ptr_bytes}

\* the layouts of the values whose refcount pointer the surrounding compiler
\* decrements itself: one aligned as a pointer, one aligned to 16 bytes
DirectLayouts == {Str, Int128}

\* the programs: each uses a few layouts
Programs ==
    { {Str, ListOf(Str), Int64, ListByValue(Str)},
      {Struct(<<Str, Int64, ListOf(Str)>>), Struct(<<Int64>>), Str, PhantomEmptyStruct},
      {NonRecursive(<<Tag(<<Int64, Str>>), Tag(<<Int64>>)>>),
       NonRecursive(<<Tag(<<Int64>>)>>), FunctionPointer, Pointer},
      {Closure(Str), Closure(Int64), DictOf(Str, Int64), SetOf(Int64)},
      {ConsList, NullableList, RoseTree, Str},
      {PairList, Struct(<<Str, Int64>>), Int128},
      {RecursivePointer, NakedUnion, NestedNakedUnion, Str},
      {RoseTree, Forest, Str, Int64},
      {ConsList, NullableTree, Str} }

InitEmit ==
    /\ RunIdle
    /\ leak \in BOOLEAN
    /\ rc = <<>>
    /\ align = <<>>
    /\ freed = <<>>
    /\ last = NoOp
    /\ trip = NoTrip
    /\ env_ptr_bytes \in TargetWidths
    /\ debug_assertions \in BOOLEAN
    /\ module = <<>>
    /\ layout_ids = [INC |-> <<>>, DEC |-> <<>>]
    /\ aborted = FALSE
    /\ calls = <<>>
    /\ request = NoRequest
    /\ program \in Programs

\* the generator's state at the start of a request
Generator == [module |-> module, layout_ids |-> layout_ids, aborted |-> FALSE]

\* the request has run and left r: a panic leaves no module behind, else the
\* module is extended and the instructions of r are in the requesting function
Complete(r, layout, mode) ==
    /\ IF r.st.aborted
       THEN /\ aborted' = TRUE
            /\ UNCHANGED <<module, layout_ids, calls>>
       ELSE /\ module' = r.st.module
            /\ layout_ids' = r.st.layout_ids
            /\ calls' = calls \o [i \in 1 .. Len(r.instrs) |->
                            [fn |-> r.instrs[i].fn, layout |-> layout, mode |-> mode]]
            /\ UNCHANGED aborted
    /\ request' = [n |-> request.n + 1, layout |-> layout, mode |-> mode,
                   module_before |-> module, ncalls |-> Len(calls)]
    /\ UNCHANGED <<cellVars, runVars, env_ptr_bytes, debug_assertions, program>>

\* one request emit_modify(value, layout, mode) of the surrounding compiler
EmitModify(layout, mode) ==
    /\ ~aborted
    /\ request.n < MaxRequests
    /\ Complete(modify_refcount_layout(Generator, mode, layout), layout, mode)

\* PointerToRefcount::decrement(env, layout) called by the surrounding
\* compiler on a refcount pointer it holds
PointerToRefcountDecrement(layout) ==
    /\ ~aborted
    /\ request.n < MaxRequests
    /\ Complete(decrement(Begin(Generator), layout), layout, "RcDec")

\* increment_refcount_layout / increment_n_refcount_layout
IncrementRefcountLayout(layout) == EmitModify(layout, "Inc")

\* decrement_refcount_layout
DecrementRefcountLayout(layout) == EmitModify(layout, "Dec")

NextEmit ==
    \/ \E layout \in program : IncrementRefcountLayout(layout)
    \/ \E layout \in program : DecrementRefcountLayout(layout)
    \/ \E layout \in program \cap DirectLayouts : PointerToRefcountDecrement(layout)

SpecEmit == InitEmit /\ [][NextEmit]_vars

----------------------------------------------------------------------------
(* The emitted code at run time: a value is handed to the helper that was  *)
(* emitted for its layout                                                  *)

\* bound on the length of a list or dict
MaxLen == 2

\* bound on the amount passed to an increment helper
MaxAmount == 2

\* the allocation of the list, the dict or the first cell; the other
\* allocations hold strings or further cells
ListObj == CHOOSE o \in Objs : \A p \in Objs : o <= p

StrObjs == Objs \ {ListObj}

\* a list, dict or string wrapper: the data pointer and the length; a
\* pointer to a cell of a recursive union is a wrapper of length 0; only
\* the block of a non-recursive union, passed by value, has fields
Value(ptr, len) == [ptr |-> ptr, len |-> len, fields |-> <<>>]

\* a small string lives in the wrapper itself: its length field is negative
SmallStr == Value(0, -1)

\* a string of one character in allocation o of alignment class a
BigStr(o, a) == Value(RcAddrOf(o, a) + ptr_bytes, 1)

StrValues(a) == {SmallStr} \cup {BigStr(o, a) : o \in StrObjs}

\* the null pointer, which is also the wrapper of the empty string
Null == Value(0, 0)

\* an integer in a slot of a cell
IntValue(n) == Value(0, n)

\* the block of a non-recursive union: the slots of its variant, the first
\* of which holds the tag id
UnionValue(slots) == [ptr |-> 0, len |-> 0, fields |-> slots]

\* a struct passed by value: its fields
StructValue(slots) == [ptr |-> 0, len |-> 0, fields |-> slots]

\* the pointer to the cell in allocation o
CellPtr(o) == Value(RcAddrOf(o, ptr_bytes) + ptr_bytes, 0)

\* the allocation a data pointer points into
ObjAtData(ptr) == CHOOSE o \in Objs : DataPtr(o) = ptr

\* the allocation whose refcount word is at the address
ObjAtRc(refcount_ptr) == CHOOSE o \in Objs : RcAddr(o) = refcount_ptr

\* the same, 0 when the address is in no allocation
ObjOfData(ptr) == IF \E o \in Objs : DataPtr(o) = ptr THEN ObjAtData(ptr) ELSE 0

ObjOfRc(refcount_ptr) ==
    IF \E o \in Objs : RcAddr(o) = refcount_ptr THEN ObjAtRc(refcount_ptr) ELSE 0

\* how many elements of the sequence point into allocation o
Occurrences(es, o) == Cardinality({i \in 1 .. Len(es) : es[i].len > 0
                                        /\ es[i].ptr = RcAddrOf(o, ptr_bytes) + ptr_bytes})

\* words a run starts from: static, count one, count two, the largest count
RunWords == {REFCOUNT_MAX, refcount_1, refcount_1 + 1, -1}

\* a frame of the stack: the function, the position in it, its arguments,
\* the index of the element loop it is in, the fields it has loaded, and
\* the tag it has read
Frame(fn, arg, amount) ==
    [fn |-> fn, block |-> 1, pc |-> 1, arg |-> arg, amount |-> amount, i |-> 0,
     loaded |-> <<>>, tag |-> 0]

\* the state of the generator before anything was requested
EmptyModule == [module |-> <<>>, layout_ids |-> [INC |-> <<>>, DEC |-> <<>>],
                aborted |-> FALSE]

\* a non-recursive union: a string, a number and a string, or nothing
Shape == NonRecursive(<<Tag(<<Int64, Str>>), Tag(<<Int64, Int64, Str>>), Tag(<<Int64>>)>>)

\* a closure that has captured a number and a string
Thunk == Closure(Struct(<<Int64, Str>>))

\* the layouts whose helpers are run
RunLayouts ==
    {ListOf(Str), Str, DictOf(Str, Int64), NullableList, NullableTree, Shape, Thunk}

NoElems == [o \in Objs |-> <<>>]

\* a list of strings, or a dict with strings as keys, in the first allocation
ContainerHeaps ==
    UNION {{[root |-> Value(RcAddrOf(ListObj, ptr_bytes) + ptr_bytes, n),
             elems |-> [NoElems EXCEPT ![ListObj] = es]] :
                es \in [1 .. n -> StrValues(ptr_bytes)]} : n \in 0 .. MaxLen}

\* a string on its own: small, empty, or big
StrHeaps == {[root |-> v, elems |-> NoElems] : v \in StrValues(ptr_bytes) \cup {Null}}

\* a nullable list of strings: null, one cell, or two cells, the strings
\* small or in the last allocation
ConsHeaps ==
    LET strs == {SmallStr, BigStr(3, ptr_bytes)}
    IN  {[root |-> Null, elems |-> NoElems]}
        \cup {[root |-> CellPtr(1), elems |-> [NoElems EXCEPT ![1] = <<s, Null>>]] :
                s \in strs}
        \cup {[root |-> CellPtr(1),
               elems |-> [NoElems EXCEPT ![1] = <<s[1], CellPtr(2)>>,
                                         ![2] = <<s[2], Null>>]] : s \in strs \X strs}

\* a nullable union of a node (tag 0: a string and the next cell) and a leaf
\* (tag 1): null, or one or two cells; the tag is the first slot of a cell
TreeHeaps ==
    LET strs == {SmallStr, BigStr(3, ptr_bytes)}
        leaf == <<IntValue(1)>>
    IN  {[root |-> Null, elems |-> NoElems],
         [root |-> CellPtr(1), elems |-> [NoElems EXCEPT ![1] = leaf]]}
        \cup {[root |-> CellPtr(1),
               elems |-> [NoElems EXCEPT ![1] = <<IntValue(0), s, Null>>]] : s \in strs}
        \cup {[root |-> CellPtr(1),
               elems |-> [NoElems EXCEPT ![1] = <<IntValue(0), s, CellPtr(2)>>,
                                         ![2] = leaf]] : s \in strs}

\* a value of the non-recursive union, by variant
UnionHeaps ==
    {[root |-> UnionValue(<<IntValue(0), s>>), elems |-> NoElems] :
        s \in StrValues(ptr_bytes)}
    \cup {[root |-> UnionValue(<<IntValue(1), IntValue(n), s>>), elems |-> NoElems] :
            n \in {0, 1}, s \in StrValues(ptr_bytes)}
    \cup {[root |-> UnionValue(<<IntValue(2)>>), elems |-> NoElems]}

\* a closure value: the function pointer and the block of the captures
ClosureHeaps ==
    {[root |-> StructValue(<<IntValue(1), StructValue(<<IntValue(n), s>>)>>),
      elems |-> NoElems] : n \in {0, 1}, s \in StrValues(ptr_bytes)}

Heaps(layout) ==
    CASE layout.head \in {"List", "Dict"} -> ContainerHeaps
      [] layout.head = "Closure" -> ClosureHeaps
      [] layout.head = "Str" -> StrHeaps
      [] layout.head = "NonRecursive" -> UnionHeaps
      [] layout.head = "NullableUnwrapped" -> ConsHeaps
      [] OTHER -> TreeHeaps

\* the number of pointers to allocation o: from the root and from the heap
Refs(h, o) ==
    (IF h.root.ptr = RcAddrOf(o, ptr_bytes) + ptr_bytes THEN 1 ELSE 0)
    + Cardinality({i \in 1 .. Len(h.root.fields) :
                        h.root.fields[i].ptr = RcAddrOf(o, ptr_bytes) + ptr_bytes})
    + Cardinality({slot \in (1 .. 2) \X (1 .. 2) :
                        /\ slot[1] <= Len(h.root.fields)
                        /\ slot[2] <= Len(h.root.fields[slot[1]].fields)
                        /\ h.root.fields[slot[1]].fields[slot[2]].ptr
                                = RcAddrOf(o, ptr_bytes) + ptr_bytes})
    + Cardinality({slot \in Objs \X (1 .. (MaxLen + 2)) :
                        /\ slot[2] <= Len(h.elems[slot[1]])
                        /\ h.elems[slot[1]][slot[2]].ptr = RcAddrOf(o, ptr_bytes) + ptr_bytes})

\* a program that holds one value and requests one modification of it; the
\* allocations have the alignment of a pointer, an allocation that is
\* pointed to k times has a count of at least k, and one that is not pointed
\* to is fresh
InitRun ==
    /\ leak \in BOOLEAN
    /\ align = [o \in Objs |-> ptr_bytes]
    /\ freed = <<>>
    /\ last = NoOp
    /\ trip = NoTrip
    /\ env_ptr_bytes = ptr_bytes
    /\ debug_assertions = FALSE
    /\ aborted = FALSE
    /\ \E layout \in RunLayouts : \E mode \in {"Inc", "Dec"} :
        LET r == modify_refcount_layout(EmptyModule, mode, layout)
        IN  /\ program = {layout}
            /\ module = r.st.module
            /\ layout_ids = r.st.layout_ids
            /\ calls = <<[fn |-> r.instrs[1].fn, layout |-> layout, mode |-> mode]>>
            /\ request = [n |-> 1, layout |-> layout, mode |-> mode,
                          module_before |-> <<>>, ncalls |-> 0]
            /\ \E h \in Heaps(layout) :
                /\ elems = h.elems
                /\ rc \in [Objs -> RunWords]
                /\ \A o \in Objs :
                        IF Refs(h, o) = 0 THEN rc[o] = refcount_1
                        ELSE rc[o] = REFCOUNT_MAX \/ CountOf(rc[o]) >= Refs(h, o)
                /\ run \in [amount : IF mode = "Inc" THEN 1 .. MaxAmount ELSE {1},
                            status : {"ready"}, root : {h.root}, rc0 : {rc}]
    /\ stack = <<>>
    /\ trace = <<>>

\* the running frame and the instruction it is at
Top == stack[Len(stack)]

Instruction == module[Top.fn].blocks[Top.block][Top.pc]

Running == run.status = "running" /\ stack # <<>>

SetTop(frame) == [stack EXCEPT ![Len(stack)] = frame]

\* an element visit, a load, a call or a refcount operation on allocation o;
\* o = 0 when the address is in no allocation
Event(ev, o, idx) ==
    [ev |-> ev, obj |-> o, idx |-> idx, dangling |-> (o \notin Objs \/ IsFreed(o))]

\* the values a load from freed memory can yield
AnyValues == StrValues(ptr_bytes) \cup {Null} \cup {CellPtr(o) : o \in Objs}

\* the call that the request emitted is executed on the value
RunCall ==
    /\ run.status = "ready"
    /\ stack' = <<Frame(calls[1].fn, run.root, run.amount)>>
    /\ run' = [run EXCEPT !.status = "running"]
    /\ UNCHANGED <<cellVars, emitVars, elems, trace>>

\* a branch at the end of a block: unconditional, on the length of the
\* argument (unsigned > 0 for a list, signed > 0 for a string or dict), or
\* on the argument being the null pointer
StepBranch ==
    /\ Running
    /\ Instruction.op \in {"br", "br_if_len_ugt_0", "br_if_len_sgt_0", "br_if_null"}
    /\ LET taken == CASE Instruction.op = "br" -> TRUE
                      [] Instruction.op = "br_if_len_ugt_0" -> Top.arg.len # 0
                      [] Instruction.op = "br_if_len_sgt_0" -> Top.arg.len > 0
                      [] Instruction.op = "br_if_null" -> Top.arg.ptr = 0
       IN  stack' = SetTop([Top EXCEPT
                        !.block = IF taken THEN Instruction.t1 ELSE Instruction.t2,
                        !.pc = 1])
    /\ UNCHANGED <<cellVars, emitVars, elems, trace, run>>

\* incrementing_elem_loop, dict_elements_rc: one turn loads the element at
\* the index through the data pointer and calls the element's helper on it;
\* the loop is left when the index reaches the length.  A load from freed
\* memory yields any value.
StepElemLoop ==
    /\ Running
    /\ Instruction.op \in {"elem_loop", "dict_keys_rc"}
    /\ IF Top.i < Top.arg.len
       THEN LET o == ObjAtData(Top.arg.ptr)
            IN  \E e \in (IF IsFreed(o) THEN StrValues(ptr_bytes)
                          ELSE {elems[o][Top.i + 1]}) :
                    /\ stack' = Append(SetTop([Top EXCEPT !.i = @ + 1]),
                                       Frame(Instruction.fn, e, Top.amount))
                    /\ trace' = Append(trace, Event("elem", o, Top.i))
       ELSE /\ stack' = SetTop([Top EXCEPT !.pc = @ + 1, !.i = 0])
            /\ UNCHANGED trace
    /\ UNCHANGED <<cellVars, emitVars, elems, run>>

\* the load of a field of the cell the argument points to; a load through
\* a pointer into no allocation faults, a load from freed memory yields any
\* value
StepLoadField ==
    /\ Running
    /\ Instruction.op = "load_field"
    /\ LET o == ObjOfData(Top.arg.ptr)
       IN  /\ trace' = Append(trace, Event("load", o, Instruction.idx))
           /\ IF o = 0
              THEN /\ run' = [run EXCEPT !.status = "fault"]
                   /\ UNCHANGED stack
              ELSE /\ \E v \in (IF IsFreed(o) THEN AnyValues
                                ELSE {elems[o][Instruction.idx + 1]}) :
                        stack' = SetTop([Top EXCEPT
                            !.pc = @ + 1,
                            !.loaded = [j \in DOMAIN @ \cup {Instruction.idx} |->
                                            IF j = Instruction.idx THEN v ELSE @[j]]])
                   /\ UNCHANGED run
    /\ UNCHANGED <<cellVars, emitVars, elems>>

\* rec_union_read_tag: the load of the tag from the first slot of the cell
StepLoadTag ==
    /\ Running
    /\ Instruction.op = "load_tag"
    /\ LET o == ObjOfData(Top.arg.ptr)
       IN  /\ trace' = Append(trace, Event("load", o, 0))
           /\ IF o = 0
              THEN /\ run' = [run EXCEPT !.status = "fault"]
                   /\ UNCHANGED stack
              ELSE /\ \E t \in (IF IsFreed(o) THEN {0, 1} ELSE {elems[o][1].len}) :
                        stack' = SetTop([Top EXCEPT !.pc = @ + 1, !.tag = t])
                   /\ UNCHANGED run
    /\ UNCHANGED <<cellVars, emitVars, elems>>

\* the switch on the tag: to the block of its case, else to the default
StepSwitch ==
    /\ Running
    /\ Instruction.op = "switch"
    /\ LET cases == Instruction.cases
           hit == {k \in 1 .. Len(cases) : cases[k][1] = Top.tag}
       IN  stack' = SetTop([Top EXCEPT
                        !.block = IF hit = {} THEN Instruction.t1
                                  ELSE cases[CHOOSE k \in hit : TRUE][2],
                        !.pc = 1])
    /\ UNCHANGED <<cellVars, emitVars, elems, trace, run>>

\* the tag of a non-recursive union: the first slot of the block, cast to
\* eight bits
StepExtractTag ==
    /\ Running
    /\ Instruction.op = "extract_tag"
    /\ stack' = SetTop([Top EXCEPT !.pc = @ + 1, !.tag = Top.arg.fields[1].len % 256])
    /\ UNCHANGED <<cellVars, emitVars, elems, trace, run>>

\* a field of the block of a non-recursive union, read as a field of the
\* variant of the case block; a slot that the value's variant does not
\* have holds nothing that can be used
StepExtractValue ==
    /\ Running
    /\ Instruction.op = "extract_value"
    /\ IF Instruction.idx + 1 \in 1 .. Len(Top.arg.fields)
       THEN /\ stack' = SetTop([Top EXCEPT
                        !.pc = @ + 1,
                        !.loaded = [j \in DOMAIN @ \cup {Instruction.idx} |->
                                        IF j = Instruction.idx
                                        THEN Top.arg.fields[Instruction.idx + 1]
                                        ELSE @[j]]])
            /\ UNCHANGED run
       ELSE /\ run' = [run EXCEPT !.status = "fault"]
            /\ UNCHANGED stack
    /\ UNCHANGED <<cellVars, emitVars, elems, trace>>

\* a call of a helper on a loaded field; the event names the cell the field
\* was loaded from, and no allocation when it came out of a block passed by
\* value
StepCall ==
    /\ Running
    /\ Instruction.op = "call"
    /\ stack' = Append(SetTop([Top EXCEPT !.pc = @ + 1]),
                       Frame(Instruction.fn, Top.loaded[Instruction.idx], Top.amount))
    /\ trace' = Append(trace,
                    IF Top.arg.fields # <<>>
                    THEN [Event("call", 0, Instruction.idx) EXCEPT !.dangling = FALSE]
                    ELSE Event("call", ObjOfData(Top.arg.ptr), Instruction.idx))
    /\ UNCHANGED <<cellVars, emitVars, elems, run>>

\* the inline increment of the cell of the argument by the helper's amount
StepRcIncrement ==
    /\ Running
    /\ Instruction.op = "rc_increment"
    /\ LET o == ObjOfRc(from_ptr_to_data(Top.arg.ptr))
       IN  /\ trace' = Append(trace, Event("rc", o, 0))
           /\ IF o = 0
              THEN /\ run' = [run EXCEPT !.status = "fault"]
                   /\ UNCHANGED <<rc, last, stack>>
              ELSE /\ rc' = [rc EXCEPT ![o] = increment(rc[o], Top.amount)]
                   /\ last' = [op |-> "inc", obj |-> o, amount |-> Top.amount,
                               before |-> rc[o], nfreed |-> Len(freed)]
                   /\ stack' = SetTop([Top EXCEPT !.pc = @ + 1])
                   /\ UNCHANGED run
    /\ UNCHANGED <<leak, align, freed, trip, emitVars, elems>>

\* the call of the shared decrement function on the refcount pointer
StepRcDecrement ==
    /\ Running
    /\ Instruction.op = "rc_decrement"
    /\ stack' = Append(SetTop([Top EXCEPT !.pc = @ + 1]),
                       Frame(Instruction.fn, Value(from_ptr_to_data(Top.arg.ptr), 0), 0))
    /\ UNCHANGED <<cellVars, emitVars, elems, trace, run>>

\* the body of decrement_refcounted_ptr_<alignment>
StepDecrementBody ==
    /\ Running
    /\ Instruction.op = "decrement_body"
    /\ LET o == ObjOfRc(Top.arg.ptr)
           r == build_decrement_function_body(rc[o], Top.arg.ptr, Instruction.idx, leak)
       IN  /\ trace' = Append(trace, Event("rc", o, 0))
           /\ IF o = 0
              THEN /\ run' = [run EXCEPT !.status = "fault"]
                   /\ UNCHANGED <<rc, freed, last, stack>>
              ELSE /\ rc' = IF r.store THEN [rc EXCEPT ![o] = r.value] ELSE rc
                   /\ freed' = freed \o r.frees
                   /\ last' = [op |-> "dec", obj |-> o, amount |-> 1, before |-> rc[o],
                               nfreed |-> Len(freed)]
                   /\ stack' = SetTop([Top EXCEPT !.pc = @ + 1])
                   /\ UNCHANGED run
    /\ UNCHANGED <<leak, align, trip, emitVars, elems>>

\* return to the caller; the run is over when the first frame returns
StepRet ==
    /\ Running
    /\ Instruction.op = "ret"
    /\ stack' = SubSeq(stack, 1, Len(stack) - 1)
    /\ run' = IF Len(stack) = 1 THEN [run EXCEPT !.status = "done"] ELSE run
    /\ UNCHANGED <<cellVars, emitVars, elems, trace>>

NextRun ==
    \/ RunCall
    \/ StepBranch
    \/ StepElemLoop
    \/ StepLoadField
    \/ StepLoadTag
    \/ StepSwitch
    \/ StepExtractTag
    \/ StepExtractValue
    \/ StepCall
    \/ StepRcIncrement
    \/ StepRcDecrement
    \/ StepDecrementBody
    \/ StepRet

SpecRun == InitRun /\ [][NextRun]_vars

----------------------------------------------------------------------------
(* Balanced use: a value is built, and the program that holds it calls the *)
(* increment and the decrement helper of its layout on it, as long as it   *)
(* holds a reference                                                       *)

\* bound on the number of helper calls on one value
MaxCalls == 3

\* a freshly built value, every allocation at count one, and the module
\* with the increment and the decrement helper of its layout; the program
\* holds one reference to the value
InitUse ==
    /\ leak \in BOOLEAN
    /\ align = [o \in Objs |-> ptr_bytes]
    /\ freed = <<>>
    /\ last = NoOp
    /\ trip = NoTrip
    /\ env_ptr_bytes = ptr_bytes
    /\ debug_assertions = FALSE
    /\ aborted = FALSE
    /\ \E layout \in RunLayouts :
        LET inc == modify_refcount_layout(EmptyModule, "Inc", layout)
            dec == modify_refcount_layout(inc.st, "Dec", layout)
        IN  /\ program = {layout}
            /\ module = dec.st.module
            /\ layout_ids = dec.st.layout_ids
            /\ calls = <<[fn |-> inc.instrs[1].fn, layout |-> layout, mode |-> "Inc"],
                         [fn |-> dec.instrs[1].fn, layout |-> layout, mode |-> "Dec"]>>
            /\ request = [n |-> 2, layout |-> layout, mode |-> "Dec",
                          module_before |-> inc.st.module, ncalls |-> 1]
            /\ \E h \in Heaps(layout) :
                /\ elems = h.elems
                /\ rc = [o \in Objs |-> refcount_1]
                /\ run = [amount |-> 0, status |-> "ready", root |-> h.root,
                          rc0 |-> [o \in Objs |-> refcount_1], held |-> 1, ncalls |-> 0]
    /\ stack = <<>>
    /\ trace = <<>>

\* the program calls the increment helper with an amount, or the decrement
\* helper, on the value it holds a reference to; the trace records the call
\* with its amount, 0 for a decrement
UseCall(mode, amount) ==
    /\ run.status \in {"ready", "done"}
    /\ run.held > 0
    /\ run.ncalls < MaxCalls
    /\ mode = "Inc" => run.held + amount <= MaxAmount + 1
    /\ stack' = <<Frame(calls[IF mode = "Inc" THEN 1 ELSE 2].fn, run.root,
                        IF mode = "Inc" THEN amount ELSE 1)>>
    /\ run' = [run EXCEPT !.status = "running",
                          !.amount = IF mode = "Inc" THEN amount ELSE 1,
                          !.held = IF mode = "Inc" THEN @ + amount ELSE @ - 1,
                          !.ncalls = @ + 1]
    /\ trace' = Append(trace, [ev |-> "use", obj |-> 0,
                               idx |-> IF mode = "Inc" THEN amount ELSE 0,
                               dangling |-> FALSE])
    /\ UNCHANGED <<cellVars, emitVars, elems>>

UseIncrement == \E amount \in 1 .. MaxAmount : UseCall("Inc", amount)

UseDecrement == UseCall("Dec", 1)

NextUse ==
    \/ UseIncrement
    \/ UseDecrement
    \/ StepBranch
    \/ StepElemLoop
    \/ StepLoadField
    \/ StepLoadTag
    \/ StepSwitch
    \/ StepExtractTag
    \/ StepExtractValue
    \/ StepCall
    \/ StepRcIncrement
    \/ StepRcDecrement
    \/ StepDecrementBody
    \/ StepRet

SpecUse == InitUse /\ [][NextUse]_vars

----------------------------------------------------------------------------
(* Pointer widths: refcount_1 and the decrement function per target        *)

\* scaled number of bits of one byte of a machine integer
BitsPerByte == 2

\* the bits of an integer of the given number of bytes
WidthBits(bytes) == bytes * BitsPerByte

\* the most negative and the largest value of a signed integer of the width
MinOf(bits) == -(2 ^ (bits - 1))

MaxOf(bits) == (2 ^ (bits - 1)) - 1

\* two's-complement wrap-around into the signed range of the width
WrapTo(x, bits) == ((x - MinOf(bits)) % (2 ^ bits)) + MinOf(bits)

\* the pointer widths that refcount_1 and ptr_int have an arm for
SupportedWidths == {1, 2, 4, 8}

\* the pointer widths a target can ask for: the supported ones and two
\* others
Widths == SupportedWidths \cup {3, 16}

\* refcount_1(ctx, ptr_bytes): the constant, or a panic for any other width
refcount_1_of_width(bytes) ==
    CASE bytes = 1 -> [panic |-> FALSE, value |-> MinOf(WidthBits(1))]
      [] bytes = 2 -> [panic |-> FALSE, value |-> MinOf(WidthBits(2))]
      [] bytes = 4 -> [panic |-> FALSE, value |-> MinOf(WidthBits(4))]
      [] bytes = 8 -> [panic |-> FALSE, value |-> MinOf(WidthBits(8))]
      [] OTHER -> [panic |-> TRUE, value |-> 0]

\* the call of LLVM_SADD_WITH_OVERFLOW_I64 on operands of type ptr_int: well
\* typed on a 64-bit target only.  On a narrower target the call does not
\* match the intrinsic's signature: the module is rejected, or the operands
\* reach the 64-bit addition sign-extended or zero-extended.
IntrinsicOutcomes(bytes) ==
    IF bytes = 8 THEN {"typed"} ELSE {"rejected", "sext", "zext"}

\* llvm.sadd.with.overflow.i64 on the operands as they reach it; the sum
\* goes back into a word of the target's width
sadd_with_overflow_i64(a, b, bytes, how) ==
    LET x == IF how = "zext" THEN a % (2 ^ WidthBits(bytes)) ELSE a
        y == IF how = "zext" THEN b % (2 ^ WidthBits(bytes)) ELSE b
    IN  [result |-> WrapTo(x + y, WidthBits(bytes)),
         overflowed |-> (x + y < MinOf(WidthBits(8)) \/ x + y > MaxOf(WidthBits(8)))]

\* _build_decrement_function_body on a target of the given pointer width:
\* the effect of one call on the word `refcount` of a cell aligned as a
\* pointer, whose refcount pointer is the start of the allocation
decrement_body_of_width(refcount, refcount_ptr, extra_bytes, leak_, bytes, how) ==
    LET add_with_overflow == sadd_with_overflow_i64(refcount, -1, bytes, how)
    IN  IF refcount = 0
        THEN [store |-> FALSE, value |-> refcount, frees |-> <<>>]
        ELSE IF add_with_overflow.overflowed
        THEN [store |-> FALSE, value |-> refcount,
              frees |-> IF leak_ THEN <<>> ELSE <<refcount_ptr>>]
        ELSE [store |-> TRUE,
              value |-> IF refcount = REFCOUNT_MAX THEN refcount
                        ELSE add_with_overflow.result,
              frees |-> <<>>]

\* the words a cell of the width starts from: static, the counts one, two
\* and three, the largest count, and the count-one words of the other widths
WidthWords(bytes) ==
    {w \in {0, -1} \cup UNION {{MinOf(WidthBits(b)), MinOf(WidthBits(b)) + 1,
                                MinOf(WidthBits(b)) + 2} : b \in SupportedWidths} :
        MinOf(WidthBits(bytes)) <= w /\ w <= MaxOf(WidthBits(bytes))}

\* a target of some pointer width and one cell, aligned as a pointer
InitWidth ==
    /\ RunIdle
    /\ leak \in BOOLEAN
    /\ env_ptr_bytes \in Widths
    /\ rc \in [Cells -> IF env_ptr_bytes \in SupportedWidths
                        THEN WidthWords(env_ptr_bytes) ELSE {0}]
    /\ align = [o \in Cells |-> ptr_bytes]
    /\ freed = <<>>
    /\ last = NoOp
    /\ trip = NoTrip
    /\ debug_assertions = FALSE
    /\ module = <<>>
    /\ layout_ids = [INC |-> <<>>, DEC |-> <<>>]
    /\ aborted = FALSE
    /\ calls = <<>>
    /\ request = NoRequest
    /\ program = {}

\* refcount_is_one_comparison: the compiler builds the constant refcount_1
\* for its target and compares the word of a cell with it
RefcountIsOne(o) ==
    /\ ~aborted
    /\ last.op = "none"
    /\ IF refcount_1_of_width(env_ptr_bytes).panic
       THEN aborted' = TRUE /\ UNCHANGED last
       ELSE /\ last' = [op |-> "one", obj |-> o,
                        amount |-> IF rc[o] = refcount_1_of_width(env_ptr_bytes).value
                                   THEN 1 ELSE 0,
                        before |-> rc[o], nfreed |-> Len(freed)]
            /\ UNCHANGED aborted
    /\ UNCHANGED <<leak, rc, align, freed, trip, env_ptr_bytes, debug_assertions, module,
                   layout_ids, calls, request, program, runVars>>

\* the decrement function is built for the target and called on the cell,
\* at most MaxAmount times; ptr_int panics for an unsupported width, and a
\* rejected module runs nothing
DecrementOfWidth(o) ==
    /\ ~aborted
    /\ ~IsFreed(o)
    /\ trip.decs < MaxAmount
    /\ trip' = [trip EXCEPT !.decs = @ + 1]
    /\ IF env_ptr_bytes \notin SupportedWidths
       THEN aborted' = TRUE /\ UNCHANGED <<rc, freed, last>>
       ELSE \E how \in IntrinsicOutcomes(env_ptr_bytes) :
                IF how = "rejected"
                THEN aborted' = TRUE /\ UNCHANGED <<rc, freed, last>>
                ELSE LET r == decrement_body_of_width(rc[o], RcAddr(o), align[o], leak,
                                                      env_ptr_bytes, how)
                     IN  /\ rc' = IF r.store THEN [rc EXCEPT ![o] = r.value] ELSE rc
                         /\ freed' = freed \o r.frees
                         /\ last' = [op |-> "dec", obj |-> o, amount |-> 1,
                                     before |-> rc[o], nfreed |-> Len(freed)]
                         /\ UNCHANGED aborted
    /\ UNCHANGED <<leak, align, env_ptr_bytes, debug_assertions, module,
                   layout_ids, calls, request, program, runVars>>

NextWidth ==
    \/ \E o \in Cells : RefcountIsOne(o)
    \/ \E o \in Cells : DecrementOfWidth(o)

SpecWidth == InitWidth /\ [][NextWidth]_vars

----------------------------------------------------------------------------
(* Claims about the refcount cell                                          *)

LastObj == last.obj

LastIsOp == last.op \in {"inc", "dec"}

\* C1: increment(n) and the shared decrement function, executed on a cell
\* whose word is 0 (STATIC), leave the word 0 and free nothing, for every
\* amount, both alignment classes and both settings of leak.
C1_StaticCellUntouched ==
    (LastIsOp /\ last.before = REFCOUNT_MAX) =>
        /\ rc[LastObj] = 0
        /\ Len(freed) = last.nfreed
        /\ ~IsFreed(LastObj)

C1_Witness ==
    /\ last.op = "dec"
    /\ last.before = REFCOUNT_MAX
    /\ ~leak
    /\ align[LastObj] = 2 * ptr_bytes

\* C2: with leak = false the decrement function frees the allocation of a
\* cell at INT_MIN (count 1) without writing the word, and takes a word in
\* (INT_MIN, 0) (count k > 1) to w - 1 (count k - 1) without freeing.
C2_DecrementNonStatic ==
    (last.op = "dec" /\ ~leak /\ last.before # REFCOUNT_MAX) =>
        /\ (last.before = IntMin) =>
                /\ IsFreed(LastObj)
                /\ Len(freed) = last.nfreed + 1
                /\ rc[LastObj] = last.before
        /\ (IntMin < last.before /\ last.before < 0) =>
                /\ rc[LastObj] = last.before - 1
                /\ CountOf(rc[LastObj]) = CountOf(last.before) - 1
                /\ Len(freed) = last.nfreed
                /\ ~IsFreed(LastObj)

C2_Witness ==
    /\ last.op = "dec"
    /\ ~leak
    /\ last.before = IntMin
    /\ IsFreed(LastObj)
    /\ align[LastObj] = 2 * ptr_bytes

\* C3: increment(n) on a non-static cell of prior count k stores the word
\* of count k + n in two's-complement arithmetic of the word width: the
\* counts agree modulo 2^WordBits for every amount n, and exactly whenever
\* k + n is a representable count.
C3_IncrementAddsAmount ==
    (last.op = "inc" /\ IntMin <= last.before /\ last.before < 0) =>
        /\ (CountOf(rc[LastObj]) - (CountOf(last.before) + last.amount)) % Modulus = 0
        /\ (CountOf(last.before) + last.amount <= CountOf(-1)) =>
                /\ rc[LastObj] < 0
                /\ CountOf(rc[LastObj]) = CountOf(last.before) + last.amount
        /\ Len(freed) = last.nfreed

C3_Witness ==
    /\ last.op = "inc"
    /\ last.before = IntMin + 1
    /\ last.amount = 3
    /\ rc[LastObj] = IntMin + 4

\* C4: starting from valid words, after any sequence of increment(n) and
\* decrement every cell that was not freed holds 0 or a word in
\* [INT_MIN, 0), and no operation turns a non-static word into 0.
C4_EncodingInvariant ==
    \A o \in DOMAIN rc :
        ~IsFreed(o) =>
            /\ ValidWord(rc[o])
            /\ (LastIsOp /\ LastObj = o /\ last.before # REFCOUNT_MAX) => rc[o] # 0

\* C5: when an increment by n has been followed by n decrements of the same
\* cell, the word is what it was before the increment and nothing was freed
\* in between.
C5_RoundTrip ==
    (trip.n >= 0 /\ trip.decs = trip.n)
        => /\ rc[trip.obj] = trip.before
           /\ Len(freed) = trip.nfreed

\* C15: with leak = true the decrement function never frees: a cell at
\* INT_MIN (count 1) keeps its word and nothing is handed to free, a static
\* cell keeps its 0, and a word in (INT_MIN, 0) goes to w - 1 as it does
\* with leak = false.
C15_LeakNeverFrees ==
    (last.op = "dec" /\ leak) =>
        /\ freed = <<>>
        /\ (last.before = IntMin) => rc[LastObj] = IntMin
        /\ (last.before = REFCOUNT_MAX) => rc[LastObj] = REFCOUNT_MAX
        /\ (IntMin < last.before /\ last.before < 0) => rc[LastObj] = last.before - 1

C15_Witness ==
    /\ last.op = "dec"
    /\ leak
    /\ last.before = IntMin
    /\ rc[LastObj] = IntMin
    /\ freed = <<>>

\* C18: a decrement that frees hands exactly one address to free: the
\* address of the refcount word when the alignment class is W, the address
\* W bytes before the word when it is 2W, which is in both cases the base of
\* the allocation whose word was read; the word itself is not written.
C18_FreeAddress ==
    (last.op = "dec" /\ Len(freed) > last.nfreed) =>
        /\ Len(freed) = last.nfreed + 1
        /\ align[LastObj] = ptr_bytes => freed[Len(freed)] = RcAddr(LastObj)
        /\ align[LastObj] = 2 * ptr_bytes
                => freed[Len(freed)] = RcAddr(LastObj) - ptr_bytes
        /\ freed[Len(freed)] = Base(LastObj)
        /\ rc[LastObj] = last.before
        /\ last.before = refcount_1

C18_Witness ==
    /\ last.op = "dec"
    /\ Len(freed) = 1
    /\ align[LastObj] = 2 * ptr_bytes
    /\ freed[1] = RcAddr(LastObj) - ptr_bytes
    /\ freed[1] # RcAddr(LastObj)


\* the decrement function without the select of its else-block: the
\* decremented value is stored whenever the subtraction does not overflow
decrement_without_select(refcount, refcount_ptr, extra_bytes, leak_) ==
    LET add_with_overflow == SaddWithOverflow(refcount, -1)
    IN  IF refcount = 0
        THEN [store |-> FALSE, value |-> refcount, frees |-> <<>>]
        ELSE IF add_with_overflow.overflowed
        THEN [store |-> FALSE, value |-> refcount,
              frees |-> then_block_free(refcount_ptr, extra_bytes, leak_)]
        ELSE [store |-> TRUE, value |-> add_with_overflow.result, frees |-> <<>>]

\* the word a cell holds after a call with effect r on a cell that held w
ResultingWord(r, w) == IF r.store THEN r.value ELSE w

\* C29: the select of the else-block never changes the outcome: for every
\* word, alignment class and leak setting the decrement function leaves
\* the same word and frees the same address as the function that always
\* stores the decremented value, and every decrement that has run left the
\* word and the frees that this simpler function computes.
C29_SelectRedundant ==
    /\ \A w \in Words : \A e \in AlignClasses : \A l \in BOOLEAN : \A o \in Cells :
            /\ ResultingWord(build_decrement_function_body(w, RcAddrOf(o, e), e, l), w)
                    = ResultingWord(decrement_without_select(w, RcAddrOf(o, e), e, l), w)
            /\ build_decrement_function_body(w, RcAddrOf(o, e), e, l).frees
                    = decrement_without_select(w, RcAddrOf(o, e), e, l).frees
    /\ last.op = "dec" =>
            /\ rc[LastObj] = ResultingWord(
                    decrement_without_select(last.before, RcAddr(LastObj),
                                             align[LastObj], leak),
                    last.before)
            /\ freed = SubSeq(freed, 1, last.nfreed) \o
                    decrement_without_select(last.before, RcAddr(LastObj),
                                             align[LastObj], leak).frees

\* a decrement has taken the else-block: the word was neither static nor
\* at count one, and the decremented word was stored
C29_Witness ==
    /\ last.op = "dec"
    /\ last.before # REFCOUNT_MAX
    /\ ~SaddWithOverflow(last.before, -1).overflowed
    /\ rc[LastObj] = last.before - 1

----------------------------------------------------------------------------
(* Claims about the generator (SpecEmit)                                   *)

\* the last request was served without aborting the compilation
Served == request.n > 0 /\ ~aborted /\ request.mode \in {"Inc", "Dec"}

\* the calls emitted before the last request for the same layout and mode
EarlierCalls == {i \in 1 .. request.ncalls :
                    calls[i].layout = request.layout /\ calls[i].mode = request.mode}

\* C6: the module never holds two functions of one name, every function in
\* it has its body, all calls emitted for one (layout, mode) go to the same
\* helper, and a request for a (layout, mode) that was requested before
\* leaves the module as it was and emits exactly one call.
C6_HelperMemoized ==
    /\ \A i, j \in 1 .. Len(module) : module[i].name = module[j].name => i = j
    /\ \A i \in 1 .. Len(module) : module[i].blocks # <<>>
    /\ \A i \in 1 .. Len(calls) : calls[i].fn \in 1 .. Len(module)
    /\ \A i, j \in 1 .. Len(calls) :
            calls[i].layout = calls[j].layout /\ calls[i].mode = calls[j].mode
                => calls[i].fn = calls[j].fn
    /\ (Served /\ EarlierCalls # {})
            => /\ module = request.module_before
               /\ Len(calls) = request.ncalls + 1

\* a list helper and a recursive-union helper were each requested again
C6_Witness ==
    /\ Served
    /\ EarlierCalls # {}
    /\ request.layout.head \in {"List", "Recursive"}
    /\ Len(module) >= 3

\* C7: the helpers called for one layout carry the same layout id in their
\* names whatever the mode and the order of the requests; ids are interned
\* under the decrement symbol only.
C7_SharedLayoutId ==
    /\ layout_ids.INC = <<>>
    /\ \A i \in 1 .. Len(module) :
            module[i].name.sym \in {"INC", "DEC"}
                => module[i].name.id \in 1 .. Len(layout_ids.DEC)
    /\ \A i, j \in 1 .. Len(calls) :
            (calls[i].layout = calls[j].layout
                /\ calls[i].mode \in {"Inc", "Dec"} /\ calls[j].mode \in {"Inc", "Dec"})
                => module[calls[i].fn].name.id = module[calls[j].fn].name.id

\* the increment helper of a layout was requested first, another layout in
\* between, the decrement helper of the first layout last
C7_Witness ==
    \E i, j, k \in 1 .. Len(calls) :
        /\ i < k /\ k < j
        /\ calls[i].layout = calls[j].layout
        /\ calls[i].mode = "Inc" /\ calls[j].mode = "Dec"
        /\ calls[k].layout # calls[i].layout
        /\ module[calls[i].fn].name.sym = "INC"
        /\ module[calls[j].fn].name.sym = "DEC"
        /\ Len(layout_ids.DEC) > 1

\* the layouts the dispatch has no helper for
NoHelperLayout(layout) ==
    \/ layout.head \in {"Int64", "Int128", "ListByValue", "FunctionPointer", "Pointer",
                        "PhantomEmptyStruct"}
    \/ layout.head = "Closure" /\ ~contains_refcounted(layout.args[1])

\* the last request added nothing to the module and emitted no call
NothingEmitted == module = request.module_before /\ Len(calls) = request.ncalls

\* the last request emitted exactly one call, of a helper with a body
OneCallEmitted ==
    /\ Len(calls) = request.ncalls + 1
    /\ calls[Len(calls)].fn \in 1 .. Len(module)
    /\ module[calls[Len(calls)].fn].blocks # <<>>

\* C8 as stated: a layout that neither is nor contains anything refcounted
\* gets no helper and no call, every other layout exactly one call.
C8_NoHelperUnlessRefcounted ==
    Served =>
        IF is_refcounted(request.layout) \/ contains_refcounted(request.layout)
        THEN OneCallEmitted
        ELSE NothingEmitted

\* C8 amended: no helper and no call exactly for scalar builtins, by-value
\* lists, function pointers, pointers, the phantom empty struct and closures
\* without refcounted captures; every other layout, a struct or non-recursive
\* union without refcounted fields included, gets exactly one call of a
\* helper with a body.
C8_NoHelperLayouts ==
    Served => IF NoHelperLayout(request.layout) THEN NothingEmitted ELSE OneCallEmitted

\* a struct without refcounted fields was requested and got its call
C8_Witness ==
    /\ Served
    /\ request.layout.head \in {"Struct", "NonRecursive"}
    /\ ~contains_refcounted(request.layout)
    /\ OneCallEmitted
    /\ Len(module) > Len(request.module_before)

\* the phase of an instruction of a case block: A load of a field, B the
\* cell's own refcount operation, C a call on a loaded field, D a tail call
Phase(ins) ==
    CASE ins.op = "load_field" -> 1
      [] ins.op \in {"rc_increment", "rc_decrement"} -> 2
      [] ins.op = "call" /\ ~ins.tail -> 3
      [] ins.op = "call" /\ ins.tail -> 4
      [] ins.op = "ret" -> 5
      [] OTHER -> 0

\* the helpers of recursive unions in the module
RecUnionHelpers == {f \in 1 .. Len(module) : module[f].arg_type = "rec_union_ptr"}

\* the numbers of the case blocks of such a helper: the targets of its
\* switch, or of the branch that replaces the switch
CaseBlocks(f) ==
    LET cont == module[f].blocks[2]
        last_ == cont[Len(cont)]
    IN  IF last_.op = "switch"
        THEN {last_.cases[k][2] : k \in 1 .. Len(last_.cases)}
        ELSE {last_.t1}

\* C10: every case block of a recursive-union helper runs its phases in the
\* order A, B, C, D, return: nothing is loaded from the cell after the
\* cell's own refcount operation, which happens exactly once, the calls on
\* the other fields precede the self calls, the self calls are tail calls
\* of the helper itself, and the block ends with its only return.
C10_PhaseOrder ==
    \A f \in RecUnionHelpers : \A b \in CaseBlocks(f) :
        LET block == module[f].blocks[b]
        IN  /\ \A k \in 1 .. Len(block) : Phase(block[k]) \in 1 .. 5
            /\ \A k \in 1 .. (Len(block) - 1) : Phase(block[k]) <= Phase(block[k + 1])
            /\ Cardinality({k \in 1 .. Len(block) : Phase(block[k]) = 2}) = 1
            /\ Cardinality({k \in 1 .. Len(block) : Phase(block[k]) = 5}) = 1
            /\ Phase(block[Len(block)]) = 5
            /\ \A k \in 1 .. Len(block) : Phase(block[k]) = 4 => block[k].fn = f
            /\ \A k \in 1 .. Len(block) : Phase(block[k]) = 3 => block[k].fn # NoFn

\* a helper with a case block in which all four phases occur
C10_Witness ==
    \E f \in RecUnionHelpers : \E b \in CaseBlocks(f) :
        \A p \in 1 .. 5 :
            \E k \in 1 .. Len(module[f].blocks[b]) : Phase(module[f].blocks[b][k]) = p

\* the tags of the union that a recursive-union helper was built for
HelperTags(f) == layout_ids.DEC[module[f].name.id].args

\* the field layouts of the variant that case block b of helper f serves:
\* the variant of the switch case that targets b, or the only variant with
\* refcounted fields when the helper branches without a switch
CaseFields(f, b) ==
    LET cont == module[f].blocks[2]
        last_ == cont[Len(cont)]
        tags == HelperTags(f)
    IN  IF last_.op = "switch"
        THEN tags[last_.cases[CHOOSE k \in 1 .. Len(last_.cases) :
                                    last_.cases[k][2] = b][1] + 1].args
        ELSE tags[CHOOSE t \in 1 .. Len(tags) : tag_has_refcounted(tags[t].args)].args

\* instruction k of the block is a tail call of helper f on a recursive
\* pointer field
SelfTailCall(f, fields, block, k) ==
    /\ block[k].op = "call"
    /\ block[k].fn = f
    /\ block[k].tail
    /\ block[k].idx + 1 \in 1 .. Len(fields)
    /\ fields[block[k].idx + 1] = RecursivePointer

\* C11: in every case block of a recursive-union helper, each
\* RecursivePointer field of the variant gets exactly one call; that call
\* targets the helper itself and carries the tail-call flag, and everything
\* after it in the block is another such self call or the return.
C11_SelfTailCalls ==
    \A f \in RecUnionHelpers : \A b \in CaseBlocks(f) :
        LET block == module[f].blocks[b]
            fields == CaseFields(f, b)
        IN  \A i \in 1 .. Len(fields) :
                fields[i] = RecursivePointer =>
                    LET K == {k \in 1 .. Len(block) :
                                block[k].op = "call" /\ block[k].idx = i - 1}
                    IN  /\ Cardinality(K) = 1
                        /\ \A k \in K :
                                /\ SelfTailCall(f, fields, block, k)
                                /\ \A j \in (k + 1) .. Len(block) :
                                        \/ block[j].op = "ret" /\ j = Len(block)
                                        \/ SelfTailCall(f, fields, block, j)

\* an increment and a decrement helper of a recursive union, each with a
\* case block that ends in a self tail call and the return
C11_Witness ==
    \A sym \in {"INC", "DEC"} :
        \E f \in RecUnionHelpers : \E b \in CaseBlocks(f) :
            /\ module[f].name.sym = sym
            /\ Len(module[f].blocks[b]) >= 2
            /\ SelfTailCall(f, CaseFields(f, b), module[f].blocks[b],
                            Len(module[f].blocks[b]) - 1)

\* the cont block of a recursive-union helper reads the tag word and
\* switches on it
ReadsTag(f) ==
    /\ Len(module[f].blocks[2]) = 2
    /\ module[f].blocks[2][1].op = "load_tag"
    /\ module[f].blocks[2][2].op = "switch"

\* the cont block of a recursive-union helper is a single jump to a case
\* block, with no read of the tag word
BranchesDirectly(f) ==
    /\ Len(module[f].blocks[2]) = 1
    /\ module[f].blocks[2][1].op = "br"
    /\ module[f].blocks[module[f].blocks[2][1].t1] # <<>>
    /\ module[f].blocks[module[f].blocks[2][1].t1][1].op \in
            {"load_field", "rc_increment", "rc_decrement"}

\* the tags of the union that carry refcounted fields
Carriers(tags) == {t \in 1 .. Len(tags) : tag_has_refcounted(tags[t].args)}

\* C21 as the specification words it: a helper whose union has one variant,
\* or only one variant with refcounted fields, branches directly, and every
\* other helper reads the tag and switches.
C21_DirectWhenOneCarrier ==
    \A f \in RecUnionHelpers :
        IF Len(HelperTags(f)) = 1 \/ Cardinality(Carriers(HelperTags(f))) = 1
        THEN BranchesDirectly(f)
        ELSE ReadsTag(f)

\* C21: a recursive-union helper reads no tag word and branches directly
\* to its only case block exactly when its union has a single variant and
\* that variant carries refcounted fields; in every other case, a union
\* with one refcounted variant next to a variant without refcounted fields
\* included, it reads the tag word and switches on it, with one case per
\* variant that carries refcounted fields.
C21_SwitchDecision ==
    \A f \in RecUnionHelpers :
        IF Len(HelperTags(f)) = 1 /\ Carriers(HelperTags(f)) = {1}
        THEN BranchesDirectly(f)
        ELSE /\ ReadsTag(f)
             /\ {module[f].blocks[2][2].cases[k][1] + 1 :
                    k \in 1 .. Len(module[f].blocks[2][2].cases)}
                    = Carriers(HelperTags(f))

\* a module with a helper that branches directly and a helper that
\* switches although only one of its two variants carries refcounted fields
C21_Witness ==
    /\ \E f \in RecUnionHelpers : BranchesDirectly(f) /\ Len(HelperTags(f)) = 1
    /\ \E f \in RecUnionHelpers :
            /\ ReadsTag(f)
            /\ Len(HelperTags(f)) = 2
            /\ Cardinality(Carriers(HelperTags(f))) = 1

\* function f begins with a null test of its argument
BeginsWithNullTest(f) == module[f].blocks[1][1].op = "br_if_null"

\* function f tests its argument for null somewhere
HasNullTest(f) ==
    \E b \in 1 .. Len(module[f].blocks) : \E k \in 1 .. Len(module[f].blocks[b]) :
        module[f].blocks[b][k].op = "br_if_null"

\* C24: the helper called for a NullableWrapped or NullableUnwrapped union
\* begins with a null test, and the helper called for a Recursive or
\* NonNullableUnwrapped union contains no null test.
C24_NullTestOnlyForNullable ==
    \A i \in 1 .. Len(calls) :
        /\ calls[i].layout.head \in {"NullableWrapped", "NullableUnwrapped"}
                => BeginsWithNullTest(calls[i].fn)
        /\ calls[i].layout.head \in {"Recursive", "NonNullableUnwrapped"}
                => ~HasNullTest(calls[i].fn)

\* C27: in every case block of the helper of a recursive union U, the call
\* on a RecursivePointer field goes to U's own helper with the loaded value
\* cast to U's pointer type, and the call on a field that is a list of
\* RecursivePointer goes to a list helper whose element loop calls U's own
\* helper on the cast element.
C27_RecursivePointerResolution ==
    \A f \in RecUnionHelpers : \A b \in CaseBlocks(f) :
        \A k \in 1 .. Len(module[f].blocks[b]) :
            LET ins == module[f].blocks[b][k]
                fields == CaseFields(f, b)
            IN  ins.op = "call" =>
                    /\ fields[ins.idx + 1] = RecursivePointer
                            => /\ ins.fn = f
                               /\ \E j \in 1 .. (k - 1) :
                                    /\ module[f].blocks[b][j].op = "load_field"
                                    /\ module[f].blocks[b][j].idx = ins.idx
                                    /\ module[f].blocks[b][j].cast
                    /\ fields[ins.idx + 1] = ListOf(RecursivePointer)
                            => \A j \in 1 .. Len(module[ins.fn].blocks[2]) :
                                    module[ins.fn].blocks[2][j].op = "elem_loop"
                                        => /\ module[ins.fn].blocks[2][j].fn = f
                                           /\ module[ins.fn].blocks[2][j].cast

\* every function that an instruction of function f refers to
Targets(f) ==
    UNION {{module[f].blocks[b][k].fn : k \in 1 .. Len(module[f].blocks[b])} :
            b \in 1 .. Len(module[f].blocks)} \ {NoFn}

\* the functions that the last request added to the module
Added == (Len(request.module_before) + 1) .. Len(module)

\* C28: a request for a recursive union completes with a finished module:
\* exactly one call is emitted at the request site, to a helper of the
\* union that is the only function of its name; every function has its
\* body, and every call or loop inside a function, the self calls and the
\* calls made through a nested list of recursion pointers included, refers
\* to a function that is declared in the module.
C28_EmissionTerminates ==
    (Served /\ request.layout.head \in RecUnionHeads) =>
        /\ Len(calls) = request.ncalls + 1
        /\ calls[Len(calls)].fn \in RecUnionHelpers
        /\ \A g \in 1 .. Len(module) :
                module[g].name = module[calls[Len(calls)].fn].name
                    => g = calls[Len(calls)].fn
        /\ Cardinality(Added \cap RecUnionHelpers) <= 1
        /\ \A g \in 1 .. Len(module) :
                /\ module[g].blocks # <<>>
                /\ Targets(g) \subseteq 1 .. Len(module)

\* a request has built the helper of a union with a list of recursion
\* pointers: the helper calls the list helper, whose element loop calls
\* the union's helper, found declared while its body was being built
C28_Witness ==
    /\ Served
    /\ request.layout = RoseTree
    /\ Cardinality(Added) = 2
    /\ \E g \in Added \ {calls[Len(calls)].fn} :
            /\ g \in Targets(calls[Len(calls)].fn)
            /\ calls[Len(calls)].fn \in Targets(g)

\* the struct helpers in the module, and the fields of the struct each was
\* built for
StructHelpers == {f \in 1 .. Len(module) : module[f].arg_type = "struct"}

StructFields(f) == layout_ids.DEC[module[f].name.id].args

RECURSIVE RefcountedFields(_, _)
\* the indices (1-based, ascending) from i on of the fields that contain
\* refcounted data
RefcountedFields(layouts, i) ==
    IF i > Len(layouts) THEN <<>>
    ELSE (IF contains_refcounted(layouts[i]) THEN <<i>> ELSE <<>>)
         \o RefcountedFields(layouts, i + 1)

\* C14: the body of every struct helper is one block that, for each field
\* containing refcounted data and in the order of the field indices,
\* extracts the field and calls a helper on it, then returns; it holds
\* nothing for the other fields and no refcount operation on the struct.
C14_StructFieldsInOrder ==
    \A f \in StructHelpers :
        LET block == module[f].blocks[1]
            R == RefcountedFields(StructFields(f), 1)
        IN  /\ Len(module[f].blocks) = 1
            /\ Len(block) = 2 * Len(R) + 1
            /\ block[Len(block)] = Ret
            /\ \A k \in 1 .. Len(R) :
                    /\ block[2 * k - 1].op = "extract_value"
                    /\ block[2 * k - 1].idx = R[k] - 1
                    /\ block[2 * k].op = "call"
                    /\ block[2 * k].idx = R[k] - 1
                    /\ block[2 * k].fn \in 1 .. Len(module)
                    /\ block[2 * k].fn # f

\* the helper of a struct of a string, an integer and a list: two calls,
\* to two different helpers, with the integer field skipped
C14_Witness ==
    \E f \in StructHelpers :
        /\ Len(StructFields(f)) = 3
        /\ RefcountedFields(StructFields(f), 1) = <<1, 3>>
        /\ Len(module[f].blocks[1]) = 5
        /\ module[f].blocks[1][2].fn # module[f].blocks[1][4].fn

RECURSIVE HasNakedPointer(_)
\* the layout is a non-recursive union with a variant that carries a
\* RecursivePointer field, or has such a union among the fields it modifies
HasNakedPointer(layout) ==
    CASE layout.head = "NonRecursive" ->
            \E t \in 1 .. Len(layout.args) : \E i \in 1 .. Len(layout.args[t].args) :
                \/ layout.args[t].args[i] = RecursivePointer
                \/ HasNakedPointer(layout.args[t].args[i])
      [] layout.head \in {"Recursive", "NullableWrapped"} ->
            \E t \in 1 .. Len(layout.args) : \E i \in 1 .. Len(layout.args[t].args) :
                HasNakedPointer(layout.args[t].args[i])
      [] layout.head \in {"Struct", "NullableUnwrapped", "NonNullableUnwrapped"} ->
            \E i \in 1 .. Len(layout.args) : HasNakedPointer(layout.args[i])
      [] OTHER -> FALSE

\* C17: a request for a RecursivePointer layout (every request is dispatched
\* under WhenRecursive::Unreachable), and a request that reaches a
\* non-recursive union with a RecursivePointer field in one of its variants,
\* abort the compilation: no call is emitted and nothing is added to the
\* module.
C17_NakedPointerAborts ==
    (request.n > 0 /\ request.mode \in {"Inc", "Dec"}
        /\ (request.layout = RecursivePointer \/ HasNakedPointer(request.layout))) =>
            /\ aborted
            /\ Len(calls) = request.ncalls
            /\ module = request.module_before

\* both aborts happened, each after a request that had been served
C17_Witness ==
    /\ aborted
    /\ request.n > 1
    /\ Len(calls) > 0
    /\ request.layout \in {NakedUnion, NestedNakedUnion}
    /\ Len(calls) = request.ncalls

C17_WitnessPointer ==
    /\ aborted
    /\ request.n > 1
    /\ Len(calls) > 0
    /\ request.layout = RecursivePointer

\* the last request was a decrement of a layout whose alignment class is
\* neither one nor two pointer widths
InvalidClassRequested ==
    /\ request.n > 0
    /\ request.mode = "RcDec"
    /\ alignment_class(request.layout) \notin {env_ptr_bytes, 2 * env_ptr_bytes}

\* C16 as stated: a decrement whose alignment class is neither W nor 2W
\* aborts the compilation, whatever the setting of leak.
C16_InvalidAlignmentAborts ==
    InvalidClassRequested =>
        /\ aborted
        /\ module = request.module_before
        /\ Len(calls) = request.ncalls

\* the shared decrement functions in the module
DecrementFns == {f \in 1 .. Len(module) : module[f].name.sym = "decrement_refcounted_ptr"}

\* the decrement sites inside the helpers: <<helper, block, position>>
HelperSites ==
    {site \in (1 .. Len(module)) \X (1 .. 8) \X (1 .. 8) :
        /\ site[2] <= Len(module[site[1]].blocks)
        /\ site[3] <= Len(module[site[1]].blocks[site[2]])
        /\ module[site[1]].blocks[site[2]][site[3]].op = "rc_decrement"}

\* the function a site calls, and the alignment class of the layout whose
\* cell the site decrements: the layout the helper was built for
SiteFn(site) == module[site[1]].blocks[site[2]][site[3]].fn

SiteClass(site) == alignment_class(layout_ids.DEC[module[site[1]].name.id])

\* the decrement sites in the requesting function
DirectSites == {i \in 1 .. Len(calls) : calls[i].mode = "RcDec"}

\* the alignment classes a decrement was requested for
RequestedClasses ==
    {SiteClass(site) : site \in HelperSites}
        \cup {alignment_class(calls[i].layout) : i \in DirectSites}

\* C19: the module holds exactly one function decrement_refcounted_ptr_A
\* for each alignment class A a decrement was requested for and none for
\* any other class, and every decrement site, in a helper or in the
\* requesting function, calls the function of the class of its layout.
C19_DecrementFnPerClass ==
    /\ \A f, g \in DecrementFns : module[f].name.id = module[g].name.id => f = g
    /\ {module[f].name.id : f \in DecrementFns} = RequestedClasses
    /\ \A site \in HelperSites :
            /\ SiteFn(site) \in DecrementFns
            /\ module[SiteFn(site)].name.id = SiteClass(site)
    /\ \A i \in DirectSites :
            /\ calls[i].fn \in DecrementFns
            /\ module[calls[i].fn].name.id = alignment_class(calls[i].layout)
    /\ \A f \in DecrementFns :
            module[f].blocks = << <<Instr("decrement_body", NoFn, module[f].name.id), Ret>> >>

\* two classes were requested, one of them at several sites
C19_Witness ==
    /\ Cardinality(DecrementFns) = 2
    /\ Cardinality(HelperSites) >= 2
    /\ DirectSites # {}
    /\ \E s1, s2 \in HelperSites : s1[1] # s2[1] /\ SiteFn(s1) = SiteFn(s2)
    /\ \E site \in HelperSites : \E i \in DirectSites : SiteFn(site) # calls[i].fn

----------------------------------------------------------------------------
(* Claims about the emitted code at run time (SpecRun)                     *)

\* the positions in the trace of the visits of the list's elements
ElemVisits == {p \in 1 .. Len(trace) : trace[p].ev = "elem" /\ trace[p].obj = ListObj}

\* the positions in the trace of the refcount operations on the list's cell
ListRcOps == {p \in 1 .. Len(trace) : trace[p].ev = "rc" /\ trace[p].obj = ListObj}

\* the positions of the refcount operations on the cell of a string
StrRcOps(o) == {p \in 1 .. Len(trace) : trace[p].ev = "rc" /\ trace[p].obj = o}

Indices == 0 .. (Len(elems[ListObj]) - 1)

\* C9: the helper of a non-empty list of strings visits no index twice and
\* loads no element from freed memory; when it operates on the list's own
\* cell every index has been visited, and no visit follows; when it has
\* returned, the list's cell was operated on once and the cell of every
\* string once for each of its places in the list.
C9_ElementsBeforeContainer ==
    (request.layout = ListOf(Str) /\ Len(elems[ListObj]) > 0) =>
        /\ \A p, q \in ElemVisits : trace[p].idx = trace[q].idx => p = q
        /\ \A p \in ElemVisits : trace[p].idx \in Indices /\ ~trace[p].dangling
        /\ \A p \in ListRcOps :
                /\ {trace[q].idx : q \in {v \in ElemVisits : v < p}} = Indices
                /\ \A q \in ElemVisits : q < p
        /\ run.status = "done" =>
                /\ Cardinality(ListRcOps) = 1
                /\ {trace[q].idx : q \in ElemVisits} = Indices
                /\ \A o \in StrObjs :
                        Cardinality(StrRcOps(o)) = Occurrences(elems[ListObj], o)

\* a decrement of a list of MaxLen strings has returned: the strings were
\* decremented, then the list, whose allocation was freed
C9_Witness ==
    /\ run.status = "done"
    /\ request.layout = ListOf(Str)
    /\ calls[1].mode = "Dec"
    /\ Len(elems[ListObj]) = MaxLen
    /\ Cardinality(ElemVisits) = MaxLen
    /\ \E o \in StrObjs : StrRcOps(o) # {}
    /\ IsFreed(ListObj)

\* the effect of one refcount operation of the mode on the word w of the
\* cell at refcount_ptr: the word afterwards and the addresses freed
ModifyEffect(mode, w, refcount_ptr, amount) ==
    IF mode = "Inc"
    THEN [value |-> increment(w, amount), frees |-> <<>>]
    ELSE LET r == build_decrement_function_body(w, refcount_ptr, ptr_bytes, leak)
         IN  [value |-> IF r.store THEN r.value ELSE w, frees |-> r.frees]

\* nothing has happened in the run: no load, call or refcount operation, no
\* free, every word as it was, no helper called from the first
NothingDone ==
    /\ trace = <<>>
    /\ freed = <<>>
    /\ rc = run.rc0
    /\ Len(stack) <= 1
    /\ run.status # "fault"

\* the helper of a nullable union runs, or has run, on the null pointer
NullRun ==
    /\ request.layout.head \in {"NullableWrapped", "NullableUnwrapped"}
    /\ run.status \in {"running", "done", "fault"}
    /\ run.root = Null

\* C12: while and after the helper of a nullable recursive union runs on
\* the null pointer nothing is loaded, stored, freed or called: from its
\* entry block it goes to a block that returns.
C12_NullReturnsImmediately ==
    NullRun =>
        /\ NothingDone
        /\ \A d \in 1 .. Len(stack) :
                module[stack[d].fn].blocks[stack[d].block][stack[d].pc].op
                    \in {"br_if_null", "ret"}

\* the helper of the union with a tag word has returned from the null test
C12_Witness ==
    /\ NullRun
    /\ run.status = "done"
    /\ request.layout.head = "NullableWrapped"
    /\ module[calls[1].fn].blocks[2][1].op = "load_tag"

\* the string helper runs, or has run, on a string given to it directly
StrRun == request.layout = Str /\ run.status \in {"running", "done", "fault"}

\* C13: the string helper does nothing at all when the length slot is not
\* greater than 0 as a signed integer (a small string, the empty string);
\* otherwise it performs exactly one refcount operation, on the cell one
\* word before the data pointer, and nothing else.
C13_StrHelper ==
    StrRun =>
        /\ run.status # "fault"
        /\ run.root.len <= 0 => NothingDone
        /\ run.root.len > 0 =>
                /\ Len(trace) <= 1
                /\ \A p \in 1 .. Len(trace) :
                        /\ trace[p].ev = "rc"
                        /\ RcAddr(trace[p].obj) = run.root.ptr - ptr_bytes
                        /\ ~trace[p].dangling
                /\ run.status = "done" =>
                        LET o == ObjAtData(run.root.ptr)
                            e == ModifyEffect(request.mode, run.rc0[o], RcAddr(o), run.amount)
                        IN  /\ Len(trace) = 1
                            /\ rc = [run.rc0 EXCEPT ![o] = e.value]
                            /\ freed = e.frees

\* a big string was decremented and freed
C13_Witness ==
    /\ StrRun
    /\ run.status = "done"
    /\ run.root.len > 0
    /\ request.mode = "Dec"
    /\ IsFreed(ObjAtData(run.root.ptr))

\* the helper has returned from a small string
C13_WitnessSmall ==
    /\ StrRun
    /\ run.status = "done"
    /\ run.root = SmallStr

\* the dict helper runs, or has run
DictRun == request.layout.head = "Dict" /\ run.status \in {"running", "done", "fault"}

\* the positions in the trace of the visits of the keys of the dict
KeyVisits == {p \in 1 .. Len(trace) : trace[p].ev = "elem"}

\* the positions of the refcount operations on the cell of the dict
DictRcOps == {p \in 1 .. Len(trace) :
                /\ trace[p].ev = "rc"
                /\ RcAddr(trace[p].obj) = run.root.ptr - ptr_bytes}

C20_WitnessEmpty ==
    /\ DictRun
    /\ run.status = "done"
    /\ run.root.len = 0


\* the refcount operations the run has applied to the allocation of its root
RootRcOps ==
    {p \in 1 .. Len(trace) :
        trace[p].ev = "rc" /\ trace[p].obj = ObjOfData(run.root.ptr)}

\* C30: whenever a helper has applied a refcount operation to the
\* allocation behind the data pointer of a list, string, dict or boxed
\* recursive union, the word it acted on is the one at data_ptr - W, and
\* both from_ptr_to_data and get_refcount_ptr_help with refcount_offset
\* derive that address from the data pointer.
C30_RefcountLocation ==
    RootRcOps # {} =>
        /\ RcAddr(ObjOfData(run.root.ptr)) = run.root.ptr - ptr_bytes
        /\ from_ptr_to_data(run.root.ptr) = RcAddr(ObjOfData(run.root.ptr))
        /\ get_refcount_ptr_help(request.layout, run.root.ptr)
                = RcAddr(ObjOfData(run.root.ptr))


\* a decrement of a static list of strings with at least one element
StaticListRun ==
    /\ request.layout = ListOf(Str)
    /\ request.mode = "Dec"
    /\ run.status \in {"running", "done", "fault"}
    /\ run.rc0[ListObj] = REFCOUNT_MAX
    /\ Len(elems[ListObj]) > 0

\* the word and the frees that k decrements leave of a cell that held w
AfterDecrements(w, refcount_ptr, k) ==
    IF k = 0 THEN [value |-> w, frees |-> <<>>]
    ELSE LET one == ModifyEffect("Dec", w, refcount_ptr, 1)
             more == AfterDecrements(one.value, refcount_ptr, k - 1)
         IN  [value |-> more.value, frees |-> one.frees \o more.frees]

\* C25: the decrement helper run on a static list of strings of length > 0
\* never writes the list's word, which stays 0, and never frees the list's
\* allocation; it does not fault, and when it has returned it has visited
\* every element once, has applied one decrement to the cell of every big
\* string for each of its places in the list, each with the effect of the
\* decrement function on that string's own word (a static string keeps its
\* word, a string at count one is freed unless leak is set), and has
\* applied one operation, without effect, to the list's cell.
C25_StaticListDecrement ==
    StaticListRun =>
        /\ rc[ListObj] = REFCOUNT_MAX
        /\ ~IsFreed(ListObj)
        /\ run.status # "fault"
        /\ run.status = "done" =>
                /\ {trace[q].idx : q \in ElemVisits} = Indices
                /\ Cardinality(ElemVisits) = Len(elems[ListObj])
                /\ Cardinality(ListRcOps) = 1
                /\ \A o \in StrObjs :
                        LET k == Occurrences(elems[ListObj], o)
                            r == AfterDecrements(run.rc0[o], RcAddr(o), k)
                        IN  /\ Cardinality(StrRcOps(o)) = k
                            /\ rc[o] = r.value
                            /\ IsFreed(o) <=> r.frees # <<>>

\* the decrement of a static list of MaxLen big strings has returned: a
\* string at count one was freed, the list was not
C25_Witness ==
    /\ StaticListRun
    /\ run.status = "done"
    /\ Cardinality(ElemVisits) = MaxLen
    /\ \A i \in 1 .. MaxLen : elems[ListObj][i].len > 0
    /\ \E o \in StrObjs : IsFreed(o)
    /\ \E o \in StrObjs : run.rc0[o] = REFCOUNT_MAX /\ StrRcOps(o) # {}
    /\ ~IsFreed(ListObj)

\* the allocation the root of the run points to, the container
RootObj == ObjOfData(run.root.ptr)

\* C26: when a decrement helper has returned from a container whose count
\* was above one, so that the container lives on, no other allocation has
\* a changed refcount word or was freed; when the count was one, the
\* allocations it points to have had their decrements.
C26_ChildrenOnLastDecrementOnly ==
    (/\ run.status = "done"
     /\ request.mode = "Dec"
     /\ RootObj # 0
     /\ run.rc0[RootObj] # REFCOUNT_MAX) =>
        IF run.rc0[RootObj] # refcount_1
        THEN \A o \in Objs \ {RootObj} : rc[o] = run.rc0[o] /\ ~IsFreed(o)
        ELSE \A o \in Objs \ {RootObj} :
                (\E i \in 1 .. Len(elems[RootObj]) :
                    elems[RootObj][i].ptr = DataPtr(o) /\ elems[RootObj][i].ptr # 0)
                        => StrRcOps(o) # {}


\* a run of the helper of the nullable union of a node and a leaf on a
\* pointer that is not null
TreeRun ==
    /\ request.layout = NullableTree
    /\ run.status \in {"running", "done", "fault"}
    /\ run.root # Null

\* the cells of the heap, each pointed to once, and the leaves among them
TreeCells == {o \in Objs : elems[o] # <<>>}

IsLeaf(o) == elems[o][1] = IntValue(1)

\* the positions in the trace of the refcount operations on allocation o
RcOps(o) == {p \in 1 .. Len(trace) : trace[p].ev = "rc" /\ trace[p].obj = o}

\* the positions of the loads of a field other than the tag, and of the
\* calls on a loaded field, of the cell in allocation o
ChildOps(o) ==
    {p \in 1 .. Len(trace) :
        /\ trace[p].obj = o
        /\ \/ trace[p].ev = "call"
           \/ trace[p].ev = "load" /\ trace[p].idx > 0}

\* C22: the helper of a recursive union never applies more than one
\* refcount operation to a cell and never loads or calls a field of a cell
\* whose tag has no case; when it has returned, every cell of the value,
\* the leaves reached through the merge block and the nodes reached through
\* their case block alike, has had exactly one refcount operation, with
\* the effect of one increment or decrement on its word.
C22_MergePath ==
    TreeRun =>
        /\ run.status # "fault"
        /\ \A o \in TreeCells :
                /\ Cardinality(RcOps(o)) <= 1
                /\ IsLeaf(o) => ChildOps(o) = {}
                /\ run.status = "done" =>
                        /\ Cardinality(RcOps(o)) = 1
                        /\ rc[o] = ModifyEffect(request.mode, run.rc0[o], RcAddr(o),
                                                run.amount).value
                        /\ IsFreed(o) <=>
                                ModifyEffect(request.mode, run.rc0[o], RcAddr(o),
                                             run.amount).frees # <<>>

\* the helper has returned from a node that points to a leaf: the node
\* went through its case block and called the helper on the leaf, which
\* went through the merge block; both cells were freed
C22_Witness ==
    /\ TreeRun
    /\ run.status = "done"
    /\ request.mode = "Dec"
    /\ \E o \in TreeCells : ~IsLeaf(o) /\ ChildOps(o) # {} /\ IsFreed(o)
    /\ \E o \in TreeCells : IsLeaf(o) /\ RcOps(o) # {} /\ IsFreed(o)


\* a run of the helper of the non-recursive union
UnionRun == request.layout = Shape /\ run.status \in {"running", "done", "fault"}

\* the indices of the refcounted fields of the variant that the tag of the
\* value names
ActiveFields ==
    {i \in 0 .. (Len(run.root.fields) - 1) :
        LET variant == Shape.args[run.root.fields[1].len + 1].args
        IN  is_refcounted(variant[i + 1]) \/ contains_refcounted(variant[i + 1])}

\* the positions of the calls on a field in the trace
FieldCalls == {p \in 1 .. Len(trace) : trace[p].ev = "call"}

\* the helpers of non-recursive unions in the module
UnionHelpers == {f \in 1 .. Len(module) : module[f].arg_type = "union_block"}

\* C23: the helper of a non-recursive union holds no refcount operation of
\* its own; run on a value, it never faults, calls a helper on no field but
\* the refcounted fields of the variant that the tag in the first slot
\* names, and when it has returned it has called one on each of them once,
\* every string the value points to has had one refcount operation for
\* each such field, every other allocation is untouched, and for a variant
\* without refcounted fields nothing has happened at all.
C23_UnionHelper ==
    /\ \A f \in UnionHelpers : \A b \in 1 .. Len(module[f].blocks) :
            \A k \in 1 .. Len(module[f].blocks[b]) :
                module[f].blocks[b][k].op
                    \notin {"rc_increment", "rc_decrement", "decrement_body"}
    /\ UnionRun =>
            /\ run.status # "fault"
            /\ \A p \in FieldCalls : trace[p].idx \in ActiveFields
            /\ \A p, q \in FieldCalls : trace[p].idx = trace[q].idx => p = q
            /\ run.status = "done" =>
                    /\ {trace[p].idx : p \in FieldCalls} = ActiveFields
                    /\ ActiveFields = {} => NothingDone
                    /\ \A o \in Objs :
                            LET k == Cardinality({i \in ActiveFields :
                                        run.root.fields[i + 1].ptr = DataPtr(o)})
                            IN  /\ Cardinality(RcOps(o)) = k
                                /\ k = 0 => rc[o] = run.rc0[o] /\ ~IsFreed(o)
                                /\ k = 1 =>
                                    /\ rc[o] = ModifyEffect(request.mode, run.rc0[o],
                                                    RcAddr(o), run.amount).value
                                    /\ IsFreed(o) <=>
                                            ModifyEffect(request.mode, run.rc0[o],
                                                RcAddr(o), run.amount).frees # <<>>

\* the helper has returned from a value of the variant whose second field
\* is a number and whose third is a big string: the string was decremented
\* and freed
C23_Witness ==
    /\ UnionRun
    /\ run.status = "done"
    /\ request.mode = "Dec"
    /\ run.root.fields[1] = IntValue(1)
    /\ FieldCalls # {}
    /\ \E o \in Objs : run.root.fields[3].ptr = DataPtr(o) /\ IsFreed(o)

\* the helper has returned from a value of the variant without refcounted
\* fields
C23_WitnessPlain ==
    /\ UnionRun
    /\ run.status = "done"
    /\ run.root.fields = <<IntValue(2)>>


\* C31: on every supported target the constant refcount_1 is the most
\* negative integer of the pointer's width and the comparison with it holds
\* for that word only; a decrement that ran on a supported target with
\* leak = false freed the cell exactly when the word was that most
\* negative integer; on any other target nothing runs, the compilation
\* aborts.
C31_CountOneOfWidth ==
    /\ env_ptr_bytes \in SupportedWidths =>
            /\ ~refcount_1_of_width(env_ptr_bytes).panic
            /\ refcount_1_of_width(env_ptr_bytes).value = MinOf(WidthBits(env_ptr_bytes))
            /\ last.op = "one" =>
                    (last.amount = 1 <=> last.before = MinOf(WidthBits(env_ptr_bytes)))
            /\ (last.op = "dec" /\ ~leak) =>
                    (Len(freed) > last.nfreed
                        <=> last.before = MinOf(WidthBits(env_ptr_bytes)))
    /\ env_ptr_bytes \notin SupportedWidths => last.op = "none"


\* a run of the helper that a request for the closure emitted a call to
ClosureRun == request.layout = Thunk /\ run.status \in {"running", "done", "fault"}

\* the layout that the helper f is named after
NamedAfter(f) == layout_ids.DEC[module[f].name.id]

\* C32: a request for a Closure whose captured block holds nothing
\* refcounted adds no function and emits no call.  The call emitted for a
\* Closure with refcounted captures goes to the helper of the struct of
\* the function pointer and the captured block, whose body extracts the
\* captured block only and calls the block's own helper on it; run on a
\* closure value it does not fault and when it has returned the captured
\* string has had one refcount operation and nothing else was touched.
C32_ClosureDispatch ==
    /\ \A mode \in {"Inc", "Dec"} :
            LET r == modify_refcount_layout(EmptyModule, mode, Closure(Struct(<<Int64>>)))
            IN  r.instrs = <<>> /\ r.st.module = <<>> /\ ~r.st.aborted
    /\ ClosureRun =>
            /\ module[calls[1].fn].arg_type = "struct"
            /\ NamedAfter(calls[1].fn) = Struct(<<FunctionPointer, Thunk.args[1]>>)
            /\ Len(module[calls[1].fn].blocks) = 1
            /\ Len(module[calls[1].fn].blocks[1]) = 3
            /\ module[calls[1].fn].blocks[1][1] = Instr("extract_value", NoFn, 1)
            /\ module[calls[1].fn].blocks[1][2].op = "call"
            /\ module[calls[1].fn].blocks[1][2].idx = 1
            /\ NamedAfter(module[calls[1].fn].blocks[1][2].fn) = Thunk.args[1]
            /\ module[calls[1].fn].blocks[1][3] = Ret
            /\ run.status # "fault"
            /\ run.status = "done" =>
                    \A o \in Objs :
                        IF run.root.fields[2].fields[2].ptr = DataPtr(o)
                        THEN /\ Cardinality(RcOps(o)) = 1
                             /\ rc[o] = ModifyEffect(request.mode, run.rc0[o], RcAddr(o),
                                                     run.amount).value
                             /\ IsFreed(o) <=>
                                    ModifyEffect(request.mode, run.rc0[o], RcAddr(o),
                                                 run.amount).frees # <<>>
                        ELSE RcOps(o) = {} /\ rc[o] = run.rc0[o] /\ ~IsFreed(o)

\* the decrement helper has returned from a closure that had captured a
\* big string at count one: the string was freed
C32_Witness ==
    /\ ClosureRun
    /\ run.status = "done"
    /\ request.mode = "Dec"
    /\ \E o \in Objs : run.root.fields[2].fields[2].ptr = DataPtr(o) /\ IsFreed(o)


\* what function f of module m is, whatever its position in the module:
\* its symbol and the layout its name stands for (the alignment class for
\* a decrement function)
KeyOf(m, ids, f) ==
    IF f = NoFn THEN [sym |-> "none", layout |-> Int64, id |-> 0]
    ELSE IF m[f].arg_type = "refcount_ptr"
    THEN [sym |-> m[f].name.sym, layout |-> Int64, id |-> m[f].name.id]
    ELSE [sym |-> m[f].name.sym, layout |-> ids.DEC[m[f].name.id], id |-> 0]

\* the code of function f with every function it refers to replaced by
\* what that function is
CodeOf(m, ids, f) ==
    [key |-> KeyOf(m, ids, f),
     arg_type |-> m[f].arg_type,
     nparams |-> m[f].nparams,
     blocks |-> [b \in 1 .. Len(m[f].blocks) |->
                    [k \in 1 .. Len(m[f].blocks[b]) |->
                        [ins |-> [m[f].blocks[b][k] EXCEPT !.fn = NoFn],
                         to |-> KeyOf(m, ids, m[f].blocks[b][k].fn)]]]]

\* the functions of m that the functions in fs refer to, in n steps or less
RECURSIVE ReachedFrom(_, _, _)
ReachedFrom(m, fs, n) ==
    IF n = 0 THEN fs
    ELSE ReachedFrom(m,
            fs \cup (UNION {UNION {{m[f].blocks[b][k].fn : k \in 1 .. Len(m[f].blocks[b])} :
                                    b \in 1 .. Len(m[f].blocks)} : f \in fs} \ {NoFn}),
            n - 1)

\* all the code that a call of function f can run
BehaviourOf(m, ids, f) == {CodeOf(m, ids, g) : g \in ReachedFrom(m, {f}, Len(m))}

\* the request served, made of a generator that has emitted nothing yet
FreshRequest == modify_refcount_layout(EmptyModule, request.mode, request.layout)

\* C33: whatever was emitted before it, a request is served with the code
\* that a generator that has emitted nothing yet produces for it: a call
\* is emitted exactly when the fresh generator emits one, and the function
\* called, with all the functions it reaches, has the fresh generator's
\* code.
C33_MemoizationSound ==
    (Served /\ ~FreshRequest.st.aborted) =>
        IF Len(calls) = request.ncalls
        THEN FreshRequest.instrs = <<>>
        ELSE /\ FreshRequest.instrs # <<>>
             /\ BehaviourOf(module, layout_ids, calls[Len(calls)].fn)
                    = BehaviourOf(FreshRequest.st.module, FreshRequest.st.layout_ids,
                                  FreshRequest.instrs[1].fn)


\* a layout in which a RecursivePointer occurs only inside a recursive
\* union, and nowhere as a field of a variant of a non-recursive union
RECURSIVE WellFormedIn(_, _)
WellFormedIn(layout, in_rec_union) ==
    CASE layout.head = "RecursivePointer" -> in_rec_union
      [] layout.head \in RecUnionHeads ->
            \A i \in 1 .. Len(layout.args) : WellFormedIn(layout.args[i], TRUE)
      [] layout.head = "NonRecursive" ->
            \A t \in 1 .. Len(layout.args) :
                \A i \in 1 .. Len(layout.args[t].args) :
                    /\ layout.args[t].args[i] # RecursivePointer
                    /\ WellFormedIn(layout.args[t].args[i], in_rec_union)
      [] OTHER ->
            \A i \in 1 .. Len(layout.args) : WellFormedIn(layout.args[i], in_rec_union)

WellFormed(layout) == WellFormedIn(layout, FALSE)

\* C34: a request emit_modify for a well-formed layout does not abort the
\* compilation, whatever was emitted by the requests before it.
C34_WellFormedNeverAborts ==
    (request.n > 0 /\ request.mode \in {"Inc", "Dec"} /\ WellFormed(request.layout))
        => ~aborted


\* the refcount operations recorded from event i of the trace on stay within
\* the references each allocation has: credit[o] is the initial reference
\* of allocation o plus its increments less its decrements so far, amount
\* the amount of the running helper call, 0 when it is a decrement
RECURSIVE BalancedFrom(_, _, _)
BalancedFrom(i, amount, credit) ==
    IF i > Len(trace) THEN TRUE
    ELSE IF trace[i].ev = "use" THEN BalancedFrom(i + 1, trace[i].idx, credit)
    ELSE IF trace[i].ev = "rc" /\ trace[i].obj \in Objs
    THEN IF amount > 0
         THEN BalancedFrom(i + 1, amount, [credit EXCEPT ![trace[i].obj] = @ + amount])
         ELSE /\ credit[trace[i].obj] > 0
              /\ BalancedFrom(i + 1, amount, [credit EXCEPT ![trace[i].obj] = @ - 1])
    ELSE BalancedFrom(i + 1, amount, credit)

\* no allocation was decremented more often than its initial reference
\* plus its increments
Balanced == BalancedFrom(1, 0, [o \in Objs |-> 1])

\* the element visits, loads and refcount operations of the trace
Accesses == {i \in 1 .. Len(trace) : trace[i].ev \in {"elem", "load", "rc"}}

C35_WitnessShared ==
    /\ Balanced
    /\ run.status = "done"
    /\ run.ncalls = 2
    /\ run.held = 1
    /\ request.layout = ListOf(Str)
    /\ run.root.len = 2
    /\ elems[ListObj][1] = elems[ListObj][2]
    /\ elems[ListObj][1].ptr # 0
    /\ rc = run.rc0

====
